---- MODULE Spec2Model ----
(***************************************************************************)
(* A model of the CLImax invocation engine (src/climax.py): the registry   *)
(* built by load_configs, the policy overlay of apply_policy, the policy   *)
(* constraint check of validate_arguments, the command synthesis of        *)
(* build_command, the subprocess primitive run_command and the call_tool   *)
(* handler of create_server.                                               *)
(*                                                                         *)
(* Text is modelled as a sequence of one-character strings, so that        *)
(* str.split, str.replace, str.endswith, str() and re.fullmatch are        *)
(* computed and not assumed.  A Python value is a record                   *)
(* [k, b, i, s]: k is the runtime type ("none", "bool", "int", "str") and  *)
(* b, i, s hold the payload of that type.  Numbers are integers.           *)
(***************************************************************************)
EXTENDS Integers, Sequences, FiniteSets, TLC

(***************************************************************************)
(* Bounds of the model.                                                    *)
(***************************************************************************)
\* longest argument list of a generated tool (SpecBuild)
MaxArgs == 2
\* largest generated registry (SpecPolicy)
MaxTools == 2

\* The constrained arguments of a generated policy entry
MaxConstraints == 2

\* How many spec files a generated command line names
MaxConfigs == 2

\* How many invocations are in flight at once
MaxInFlight == 2

\* limit=10, the default of search
DefaultLimit == 10

(***************************************************************************)
(* Python values.                                                          *)
(***************************************************************************)
VNone == [k |-> "none", b |-> FALSE, i |-> 0, s |-> <<>>]

VBool(x) == [k |-> "bool", b |-> x, i |-> 0, s |-> <<>>]

VInt(n) == [k |-> "int", b |-> FALSE, i |-> n, s |-> <<>>]

VStr(t) == [k |-> "str", b |-> FALSE, i |-> 0, s |-> t]

\* An integer beyond the range of a float, such as 10**400; s stands for its
\* decimal digits
VBig == [k |-> "big", b |-> FALSE, i |-> 0, s |-> <<"1", "0", "0", "0", "0">>]

\* Python truthiness, bool(value)
Truthy(v) ==
    CASE v.k = "none" -> FALSE
      [] v.k = "bool" -> v.b
      [] v.k = "int" -> v.i # 0
      [] OTHER -> v.s # <<>>

(***************************************************************************)
(* Text helpers.                                                           *)
(***************************************************************************)
Lower == {"a", "b", "c", "d", "e", "f", "g", "h", "i", "j", "k", "l", "m",
          "n", "o", "p", "q", "r", "s", "t", "u", "v", "w", "x", "y", "z"}

Upper == {"A", "B", "C", "D", "E", "F", "G", "H", "I", "J", "K", "L", "M",
          "N", "O", "P", "Q", "R", "S", "T", "U", "V", "W", "X", "Y", "Z"}

Digits == <<"0", "1", "2", "3", "4", "5", "6", "7", "8", "9">>

Whitespace == {" ", "\n", "\t"}

IsDigit(ch) == \E d \in 1..10 : Digits[d] = ch

DigitVal(ch) == (CHOOSE d \in 1..10 : Digits[d] = ch) - 1

\* str(n) for an integer n
RECURSIVE NatToStr(_)
NatToStr(n) ==
    IF n < 10 THEN <<Digits[n + 1]>>
    ELSE NatToStr(n \div 10) \o <<Digits[(n % 10) + 1]>>

IntToStr(n) == IF n < 0 THEN <<"-">> \o NatToStr(0 - n) ELSE NatToStr(n)

\* str(value)
Str(v) ==
    CASE v.k = "none" -> <<"N", "o", "n", "e">>
      [] v.k = "bool" -> IF v.b THEN <<"T", "r", "u", "e">>
                         ELSE <<"F", "a", "l", "s", "e">>
      [] v.k = "int" -> IntToStr(v.i)
      [] OTHER -> v.s

\* str.split(): the maximal runs of non-whitespace characters, in order
RECURSIVE SplitFrom(_, _, _)
SplitFrom(t, j, word) ==
    IF j > Len(t) THEN (IF word = <<>> THEN <<>> ELSE <<word>>)
    ELSE IF t[j] \in Whitespace
         THEN (IF word = <<>> THEN <<>> ELSE <<word>>) \o SplitFrom(t, j + 1, <<>>)
         ELSE SplitFrom(t, j + 1, Append(word, t[j]))

Split(t) == SplitFrom(t, 1, <<>>)

\* str.replace(old, new) for single characters
Replace(t, old, new) == [j \in 1..Len(t) |-> IF t[j] = old THEN new ELSE t[j]]

\* str.endswith(ch)
EndsWith(t, ch) == Len(t) > 0 /\ t[Len(t)] = ch

(***************************************************************************)
(* Configuration models.                                                   *)
(***************************************************************************)
\* flag: str | None = None; build_command tests it with `not flag`
NoFlag == <<>>

\* The fields a declaration may carry: those of ToolArg, and the cwd / stdin
\* facets that the specification and the tests pass to ToolArg(...).
Decl(name, type, required, default, flag, positional, cwd, stdin) ==
    [name |-> name, type |-> type, required |-> required, default |-> default,
     flag |-> flag, positional |-> positional, enum |-> {},
     cwd |-> cwd, stdin |-> stdin]

\* class ToolArg(BaseModel): the model keeps its declared fields; pydantic
\* ignores any other keyword it is given, so cwd and stdin are not kept.
ToolArg(d) ==
    [name |-> d.name, type |-> d.type, required |-> d.required,
     default |-> d.default, flag |-> d.flag, positional |-> d.positional,
     enum |-> d.enum]

ToolArgs(ds) == [j \in 1..Len(ds) |-> ToolArg(ds[j])]

\* class ToolDef(BaseModel); timeout None is 0
ToolDef(name, description, command, decls, timeout) ==
    [name |-> name, description |-> description, command |-> command,
     args |-> ToolArgs(decls), timeout |-> timeout]

\* arguments.get(name)
Get(arguments, name) ==
    IF name \in DOMAIN arguments THEN arguments[name] ELSE VNone

(***************************************************************************)
(* build_input_schema                                                      *)
(***************************************************************************)
\* properties[arg.name] = {"type": ..., "default": arg.default when it is not
\* None, "enum": arg.enum when it is not empty}; required lists the names of
\* the required arguments in order; TYPE_MAP gives each ArgType its own name
build_input_schema(args) ==
    [type |-> "object",
     properties |->
        [n \in {args[j].name : j \in 1..Len(args)} |->
            LET arg == args[CHOOSE j \in 1..Len(args) :
                                /\ args[j].name = n
                                /\ \A m \in 1..Len(args) : args[m].name = n => m <= j]
            IN  [type |-> arg.type,
                 has_default |-> arg.default # VNone,
                 default |-> arg.default,
                 enum |-> arg.enum]],
     required |-> LET wanted == SelectSeq([j \in 1..Len(args) |-> args[j]],
                                          LAMBDA a : a.required)
                  IN  [j \in 1..Len(wanted) |-> wanted[j].name]]

(***************************************************************************)
(* build_command                                                           *)
(***************************************************************************)
\* A variant that renders the default of a positional argument left out
RECURSIVE PositionalPass_with_default(_, _, _)
PositionalPass_with_default(args, arguments, j) ==
    IF j > Len(args) THEN <<>>
    ELSE (IF args[j].positional /\ args[j].name \in DOMAIN arguments
          THEN <<Str(arguments[args[j].name])>>
          ELSE IF args[j].positional /\ args[j].default # VNone
          THEN <<Str(args[j].default)>>
          ELSE <<>>) \o PositionalPass_with_default(args, arguments, j + 1)

\* First pass: the values of the positional arguments that are in the map
RECURSIVE PositionalPass(_, _, _)
PositionalPass(args, arguments, j) ==
    IF j > Len(args) THEN <<>>
    ELSE (IF args[j].positional /\ args[j].name \in DOMAIN arguments
          THEN <<Str(arguments[args[j].name])>>
          ELSE <<>>) \o PositionalPass(args, arguments, j + 1)

\* A variant in which the default wins over the value the caller sent
ResolveValue_default_first(arg_def, arguments) ==
    IF arg_def.default # VNone THEN arg_def.default ELSE Get(arguments, arg_def.name)

\* value = arguments.get(name); the default replaces a missing or None value
ResolveValue(arg_def, arguments) ==
    LET value == Get(arguments, arg_def.name) IN
    IF value = VNone /\ arg_def.default # VNone THEN arg_def.default ELSE value

\* A variant that keeps the underscores of the name in the generated flag
FlagOf_keeps_underscores(arg_def) ==
    IF arg_def.flag = NoFlag THEN <<"-", "-">> \o arg_def.name ELSE arg_def.flag

\* flag = arg_def.flag or "--" + name.replace("_", "-")
FlagOf(arg_def) ==
    IF arg_def.flag = NoFlag
    THEN <<"-", "-">> \o Replace(arg_def.name, "_", "-")
    ELSE arg_def.flag

\* A variant that tests `if value:` instead
IsTrueValue_truthy(value) == Truthy(value)

\* value is True or value == "true"
IsTrueValue(value) == value = VBool(TRUE) \/ value = VStr(<<"t", "r", "u", "e">>)

\* The tokens one non-positional argument adds in the second pass
FlagTokens(arg_def, arguments) ==
    LET value == ResolveValue(arg_def, arguments)
        flag == FlagOf(arg_def)
    IN  IF value = VNone THEN <<>>
        ELSE IF arg_def.type = "boolean"
             THEN (IF IsTrueValue(value) THEN <<flag>> ELSE <<>>)
             ELSE IF EndsWith(flag, "=")
                  THEN <<flag \o Str(value)>>
                  ELSE <<flag, Str(value)>>

\* Second pass: the flag arguments, in definition order
RECURSIVE FlagPass(_, _, _)
FlagPass(args, arguments, j) ==
    IF j > Len(args) THEN <<>>
    ELSE (IF args[j].positional THEN <<>> ELSE FlagTokens(args[j], arguments))
         \o FlagPass(args, arguments, j + 1)

\* A variant that renders every argument in one pass, in definition order
RECURSIVE OnePass(_, _, _)
OnePass(args, arguments, j) ==
    IF j > Len(args) THEN <<>>
    ELSE (IF args[j].positional
          THEN (IF args[j].name \in DOMAIN arguments
                THEN <<Str(arguments[args[j].name])>> ELSE <<>>)
          ELSE FlagTokens(args[j], arguments))
         \o OnePass(args, arguments, j + 1)

build_command_one_pass(base_cmd, tool_def, arguments) ==
    Split(base_cmd)
    \o (IF tool_def.command # <<>> THEN Split(tool_def.command) ELSE <<>>)
    \o OnePass(tool_def.args, arguments, 1)

build_command(base_cmd, tool_def, arguments) ==
    Split(base_cmd)
    \o (IF tool_def.command # <<>> THEN Split(tool_def.command) ELSE <<>>)
    \o PositionalPass(tool_def.args, arguments, 1)
    \o FlagPass(tool_def.args, arguments, 1)

(***************************************************************************)
(* Registry entries.                                                       *)
(***************************************************************************)
\* class ResolvedTool(BaseModel); arg_constraints is a dict, kept as the
\* sequence of its (name, constraint) items in insertion order
ResolvedTool(tool, base_command) ==
    [tool |-> tool, base_command |-> base_command, env |-> <<>>,
     description_override |-> "None", arg_constraints |-> <<>>]

\* The names of a registry, in insertion order
Names(registry) == [j \in 1..Len(registry) |-> registry[j].tool.name]

NameSet(registry) == {registry[j].tool.name : j \in 1..Len(registry)}

\* tool_map.get(name): the entry, when the name is a key
Lookup(registry, name) ==
    registry[CHOOSE j \in 1..Len(registry) : registry[j].tool.name = name]

\* tool_map[name] = entry: a new key goes last, an old key keeps its place
DictSet(registry, entry) ==
    IF entry.tool.name \in NameSet(registry)
    THEN [j \in 1..Len(registry) |->
            IF registry[j].tool.name = entry.tool.name THEN entry ELSE registry[j]]
    ELSE Append(registry, entry)

(***************************************************************************)
(* Policy models.                                                          *)
(***************************************************************************)
\* class ArgConstraint(BaseModel): pattern, min and max, each optional.  A
\* pattern is a sequence of atoms [cls, ch, rep]: a character class ("lower",
\* "upper", "digit", "any", or "lit" for the character ch) repeated once
\* ("one"), one or more times ("plus") or any number of times ("star").
ArgConstraint(has_pattern, pattern, has_min, min, has_max, max) ==
    [has_pattern |-> has_pattern, pattern |-> pattern,
     has_min |-> has_min, min |-> min, has_max |-> has_max, max |-> max]

PatternOnly(pattern) == ArgConstraint(TRUE, pattern, FALSE, 0, FALSE, 0)

Range(lo, hi) == ArgConstraint(FALSE, <<>>, TRUE, lo, TRUE, hi)

Atom(cls, ch, rep) == [cls |-> cls, ch |-> ch, rep |-> rep]

\* class ToolPolicy(BaseModel); args is a dict, kept as the sequence of its
\* (name, constraint) items
ToolPolicy(description, args) == [description |-> description, args |-> args]

Item(name, constraint) == [name |-> name, constraint |-> constraint]

LocalExecutor == [type |-> "local", image |-> <<>>, volumes |-> <<>>,
                  working_dir |-> <<>>, network |-> <<>>]

\* class PolicyConfig(BaseModel); tools is a dict keyed by tool name
PolicyConfig(executor, default, tools) ==
    [present |-> TRUE, executor |-> executor, default |-> default, tools |-> tools]

(***************************************************************************)
(* re.fullmatch                                                            *)
(***************************************************************************)
InClass(atom, ch) ==
    CASE atom.cls = "lower" -> ch \in Lower
      [] atom.cls = "upper" -> ch \in Upper
      [] atom.cls = "digit" -> IsDigit(ch)
      [] atom.cls = "any" -> ch # "\n"
      [] OTHER -> ch = atom.ch

\* pattern[a..] matches exactly text[j..]
RECURSIVE MatchFrom(_, _, _, _)
MatchFrom(pattern, a, text, j) ==
    IF a > Len(pattern) THEN j > Len(text)
    ELSE LET atom == pattern[a]
             here == j <= Len(text) /\ InClass(atom, text[j])
         IN  CASE atom.rep = "one" -> here /\ MatchFrom(pattern, a + 1, text, j + 1)
               [] atom.rep = "plus" ->
                    here /\ (\/ MatchFrom(pattern, a + 1, text, j + 1)
                             \/ MatchFrom(pattern, a, text, j + 1))
               [] OTHER ->
                    \/ MatchFrom(pattern, a + 1, text, j)
                    \/ (here /\ MatchFrom(pattern, a, text, j + 1))

\* A variant with the semantics of re.match: a prefix of the text matches
FullMatch_prefix(pattern, text) ==
    \E n \in 0..Len(text) : MatchFrom(pattern, 1, SubSeq(text, 1, n), 1)

FullMatch(pattern, text) == MatchFrom(pattern, 1, text, 1)

(***************************************************************************)
(* float(value): defined for numbers, booleans and the strings that spell  *)
(* an integer; anything else raises TypeError or ValueError.               *)
(***************************************************************************)
IsNumeral(t) ==
    LET body == IF Len(t) > 0 /\ t[1] = "-" THEN Tail(t) ELSE t IN
    Len(body) > 0 /\ \A m \in 1..Len(body) : IsDigit(body[m])

RECURSIVE NumeralValue(_)
NumeralValue(t) ==
    IF t = <<>> THEN 0
    ELSE 10 * NumeralValue(SubSeq(t, 1, Len(t) - 1)) + DigitVal(t[Len(t)])

CanFloat(v) ==
    CASE v.k = "none" -> FALSE
      [] v.k = "str" -> IsNumeral(v.s)
      [] v.k = "big" -> FALSE
      [] OTHER -> TRUE

\* float(value) raises OverflowError, which is neither TypeError nor
\* ValueError
FloatOverflows(v) == v.k = "big"

Float(v) ==
    CASE v.k = "bool" -> IF v.b THEN 1 ELSE 0
      [] v.k = "int" -> v.i
      [] OTHER -> IF v.s[1] = "-" THEN 0 - NumeralValue(Tail(v.s))
                  ELSE NumeralValue(v.s)

(***************************************************************************)
(* validate_arguments                                                      *)
(***************************************************************************)
PolicyError(arg_name, kind, value) == [arg |-> arg_name, kind |-> kind, value |-> value]

\* The errors one constrained argument adds: pattern, then min, then max
ConstraintErrors(arg_name, constraint, arguments) ==
    IF arg_name \notin DOMAIN arguments THEN <<>>
    ELSE LET value == arguments[arg_name] IN
        (IF /\ constraint.has_pattern
            /\ value.k = "str"
            /\ ~FullMatch(constraint.pattern, value.s)
         THEN <<PolicyError(arg_name, "pattern", value)>> ELSE <<>>)
        \o (IF constraint.has_min /\ CanFloat(value) /\ Float(value) < constraint.min
            THEN <<PolicyError(arg_name, "min", value)>> ELSE <<>>)
        \o (IF constraint.has_max /\ CanFloat(value) /\ Float(value) > constraint.max
            THEN <<PolicyError(arg_name, "max", value)>> ELSE <<>>)

RECURSIVE ValidateFrom(_, _, _)
ValidateFrom(arguments, constraints, j) ==
    IF j > Len(constraints) THEN <<>>
    ELSE ConstraintErrors(constraints[j].name, constraints[j].constraint, arguments)
         \o ValidateFrom(arguments, constraints, j + 1)

validate_arguments(arguments, tool_def, constraints) ==
    ValidateFrom(arguments, constraints, 1)

\* validate_arguments does not return: a float(value) of a min or max check
\* raises an exception that its except clauses do not name
ValidateRaises(arguments, constraints) ==
    \E j \in 1..Len(constraints) :
        /\ constraints[j].name \in DOMAIN arguments
        /\ constraints[j].constraint.has_min \/ constraints[j].constraint.has_max
        /\ FloatOverflows(arguments[constraints[j].name])

(***************************************************************************)
(* apply_policy                                                            *)
(***************************************************************************)
\* policy.tools.get(name) is not None
HasToolPolicy(policy_config, name) == name \in DOMAIN policy_config.tools

\* A variant that keeps every item of the tool policy
KnownItems_all(items, known_args, j) == items

\* {k: v for k, v in tool_policy.args.items() if k in known_args}
RECURSIVE KnownItems(_, _, _)
KnownItems(items, known_args, j) ==
    IF j > Len(items) THEN <<>>
    ELSE (IF items[j].name \in known_args THEN <<items[j]>> ELSE <<>>)
         \o KnownItems(items, known_args, j + 1)

\* The clone of one surviving entry, with the overrides of its tool policy
Overlay(resolved, policy_config) ==
    IF ~HasToolPolicy(policy_config, resolved.tool.name) THEN resolved
    ELSE LET tool_policy == policy_config.tools[resolved.tool.name]
             known_args == {resolved.tool.args[j].name : j \in 1..Len(resolved.tool.args)}
         IN  [resolved EXCEPT
                !.description_override =
                    IF tool_policy.description # "None"
                    THEN tool_policy.description ELSE @,
                !.arg_constraints =
                    IF tool_policy.args # <<>>
                    THEN KnownItems(tool_policy.args, known_args, 1) ELSE @]

\* new_resolved = resolved.model_copy(): a shallow copy, whose fields refer
\* to the objects of the original; arg_constraints refers to a new dict only
\* when the tool policy has args
SharedWithInput(resolved, policy_config) ==
    {"tool"}
    \cup (IF /\ HasToolPolicy(policy_config, resolved.tool.name)
              /\ policy_config.tools[resolved.tool.name].args # <<>>
          THEN {} ELSE {"arg_constraints"})

\* A variant that lets every entry through
Survives_always(resolved, policy_config) == TRUE

\* default == disabled and no tool policy: the entry is skipped
Survives(resolved, policy_config) ==
    policy_config.default # "disabled"
    \/ HasToolPolicy(policy_config, resolved.tool.name)

RECURSIVE ApplyFrom(_, _, _)
ApplyFrom(registry, policy_config, j) ==
    IF j > Len(registry) THEN <<>>
    ELSE (IF Survives(registry[j], policy_config)
          THEN <<Overlay(registry[j], policy_config)>> ELSE <<>>)
         \o ApplyFrom(registry, policy_config, j + 1)

\* A variant that returns the registry as it was given
apply_policy_keeps_all(registry, policy_config) == registry

apply_policy(registry, policy_config) == ApplyFrom(registry, policy_config, 1)

(***************************************************************************)
(* build_docker_prefix                                                     *)
(***************************************************************************)
\* class ExecutorConfig(BaseModel); model_post_init refuses type docker
\* without an image
ExecutorConfig(type, image, volumes, working_dir, network) ==
    [type |-> type, image |-> image, volumes |-> volumes,
     working_dir |-> working_dir, network |-> network]

\* A variant that accepts every executor
model_post_init_raises_never(executor) == FALSE

\* ExecutorConfig.model_post_init: a docker executor without an image raises
\* ValueError when the model is constructed
model_post_init_raises(executor) ==
    executor.type = "docker" /\ executor.image = <<>>

\* os.environ of the server process: HOME is set, EMPTY is set to ""
Environ == (<<"H", "O", "M", "E">> :> <<"/", "h">>) @@ (<<"E", "M", "P", "T", "Y">> :> <<>>)

IsNameChar(ch) == ch \in Lower \/ ch \in Upper \/ IsDigit(ch) \/ ch = "_"

\* The longest run of name characters of t from position j on
RECURSIVE NameFrom(_, _)
NameFrom(t, j) ==
    IF j <= Len(t) /\ IsNameChar(t[j]) THEN <<t[j]>> \o NameFrom(t, j + 1) ELSE <<>>

\* The place of the first "}" of t from position j on, 0 when there is none
RECURSIVE ClosingBrace(_, _)
ClosingBrace(t, j) ==
    IF j > Len(t) THEN 0
    ELSE IF t[j] = "}" THEN j ELSE ClosingBrace(t, j + 1)

\* The text with every reference replaced by the variable's value, and by
\* nothing when the variable is not set
RECURSIVE ExpandFrom_omitting(_, _, _)
ExpandFrom_omitting(t, j, environ) ==
    IF j > Len(t) THEN <<>>
    ELSE IF t[j] = "$" /\ j < Len(t) /\ t[j + 1] = "{" /\ ClosingBrace(t, j + 2) > 0
         THEN LET name == SubSeq(t, j + 2, ClosingBrace(t, j + 2) - 1) IN
              (IF name \in DOMAIN environ THEN environ[name] ELSE <<>>)
              \o ExpandFrom_omitting(t, ClosingBrace(t, j + 2) + 1, environ)
    ELSE IF t[j] = "$" /\ NameFrom(t, j + 1) # <<>>
         THEN LET name == NameFrom(t, j + 1) IN
              (IF name \in DOMAIN environ THEN environ[name] ELSE <<>>)
              \o ExpandFrom_omitting(t, j + 1 + Len(name), environ)
         ELSE <<t[j]>> \o ExpandFrom_omitting(t, j + 1, environ)

\* os.path.expandvars: $NAME and ${NAME} are replaced by the value of a
\* variable that is set, and are left as they stand when it is not set
RECURSIVE ExpandFrom(_, _, _)
ExpandFrom(t, j, environ) ==
    IF j > Len(t) THEN <<>>
    ELSE IF t[j] = "$" /\ j < Len(t) /\ t[j + 1] = "{" /\ ClosingBrace(t, j + 2) > 0
         THEN LET close == ClosingBrace(t, j + 2)
                  name == SubSeq(t, j + 2, close - 1) IN
              (IF name \in DOMAIN environ THEN environ[name] ELSE SubSeq(t, j, close))
              \o ExpandFrom(t, close + 1, environ)
    ELSE IF t[j] = "$" /\ NameFrom(t, j + 1) # <<>>
         THEN LET name == NameFrom(t, j + 1) IN
              (IF name \in DOMAIN environ THEN environ[name] ELSE <<"$">> \o name)
              \o ExpandFrom(t, j + 1 + Len(name), environ)
         ELSE <<t[j]>> \o ExpandFrom(t, j + 1, environ)

ExpandVars(t) == ExpandFrom(t, 1, Environ)

RECURSIVE VolumeFlags(_, _)
VolumeFlags(volumes, j) ==
    IF j > Len(volumes) THEN <<>>
    ELSE <<<<"-", "v">>, ExpandVars(volumes[j])>> \o VolumeFlags(volumes, j + 1)

\* A variant that names the image before the options
build_docker_prefix_image_first(executor) ==
    <<<<"d", "o", "c", "k", "e", "r">>, <<"r", "u", "n">>, <<"-", "-", "r", "m">>,
      executor.image>>
    \o VolumeFlags(executor.volumes, 1)
    \o (IF executor.network # <<>> THEN <<<<"-", "-", "n", "e", "t", "w", "o", "r", "k">>, executor.network>> ELSE <<>>)
    \o (IF executor.working_dir # <<>> THEN <<<<"-", "w">>, executor.working_dir>> ELSE <<>>)

build_docker_prefix(executor) ==
    <<<<"d", "o", "c", "k", "e", "r">>, <<"r", "u", "n">>, <<"-", "-", "r", "m">>>>
    \o VolumeFlags(executor.volumes, 1)
    \o (IF executor.network # <<>> THEN <<<<"-", "-", "n", "e", "t", "w", "o", "r", "k">>, executor.network>> ELSE <<>>)
    \o (IF executor.working_dir # <<>> THEN <<<<"-", "w">>, executor.working_dir>> ELSE <<>>)
    \o <<executor.image>>

(***************************************************************************)
(* run_command: its results                                                *)
(***************************************************************************)
\* f"{timeout}" for a float with an integral value
FloatToStr(n) == IntToStr(n) \o <<".", "0">>

\* tool_timeout = resolved.tool.timeout or 30.0
DefaultTimeout == 30

ToolTimeout(tool_def) == IF tool_def.timeout # 0 THEN tool_def.timeout ELSE DefaultTimeout

Result(returncode, stdout, stderr) ==
    [returncode |-> returncode, stdout |-> stdout, stderr |-> stderr]

\* (-1, "", f"Command timed out after {timeout}s")
TimeoutResult(timeout) ==
    Result(0 - 1, <<>>, <<"C", "o", "m", "m", "a", "n", "d", " ", "t", "i", "m", "e", "d", " ", "o", "u", "t", " ", "a", "f", "t", "e", "r", " ">> \o FloatToStr(timeout) \o <<"s">>)

\* (-1, "", f"Command not found: {cmd[0]}")
NotFoundResult(argv) == Result(0 - 1, <<>>, <<"C", "o", "m", "m", "a", "n", "d", " ", "n", "o", "t", " ", "f", "o", "u", "n", "d", ":", " ">> \o argv[1])

\* What create_subprocess_exec can do: start the child, or raise
\* FileNotFoundError (no such executable, no such working directory) or
\* another OSError such as PermissionError (a file that is not executable)
SpawnOutcomes == {"started", "FileNotFoundError", "PermissionError"}

\* The except clauses of run_command
CaughtBySpawnHandler(exception) == exception = "FileNotFoundError"

(***************************************************************************)
(* call_tool: its response                                                 *)
(***************************************************************************)
\* str.strip()
RECURSIVE LStrip(_)
LStrip(t) == IF t # <<>> /\ Head(t) \in Whitespace THEN LStrip(Tail(t)) ELSE t

RECURSIVE RStrip(_)
RStrip(t) ==
    IF t # <<>> /\ t[Len(t)] \in Whitespace THEN RStrip(SubSeq(t, 1, Len(t) - 1)) ELSE t

Strip(t) == RStrip(LStrip(t))

\* "\n\n".join(parts)
RECURSIVE Join(_, _)
Join(parts, j) ==
    IF j > Len(parts) THEN <<>>
    ELSE (IF j > 1 THEN <<"\n", "\n">> ELSE <<>>) \o parts[j] \o Join(parts, j + 1)

\* A variant that puts the exit code before the streams
ResponseParts_code_first(res) ==
    (IF res.returncode # 0
     THEN <<<<"[", "e", "x", "i", "t", " ", "c", "o", "d", "e", ":", " ">> \o IntToStr(res.returncode) \o <<"]">>>> ELSE <<>>)
    \o (IF Strip(res.stdout) # <<>> THEN <<Strip(res.stdout)>> ELSE <<>>)
    \o (IF Strip(res.stderr) # <<>>
        THEN <<<<"[", "s", "t", "d", "e", "r", "r", "]">> \o <<"\n">> \o Strip(res.stderr)>> ELSE <<>>)

\* The parts of the response: stdout, stderr, exit code
ResponseParts(res) ==
    (IF Strip(res.stdout) # <<>> THEN <<Strip(res.stdout)>> ELSE <<>>)
    \o (IF Strip(res.stderr) # <<>>
        THEN <<<<"[", "s", "t", "d", "e", "r", "r", "]">> \o <<"\n">> \o Strip(res.stderr)>> ELSE <<>>)
    \o (IF res.returncode # 0
        THEN <<<<"[", "e", "x", "i", "t", " ", "c", "o", "d", "e", ":", " ">> \o IntToStr(res.returncode) \o <<"]">>>> ELSE <<>>)

FormatResult(res) ==
    [kind |-> "result",
     text |-> IF ResponseParts(res) # <<>> THEN Join(ResponseParts(res), 1)
              ELSE <<"(", "n", "o", " ", "o", "u", "t", "p", "u", "t", ")">>]

\* f"Unknown tool: {name}"
UnknownTool(name) == [kind |-> "unknown_tool", name |-> name, listed |-> FALSE,
                      available |-> {}]

\* "Policy validation failed:\n" and one bullet "  - {e}" per error
PolicyFailed(errors) == [kind |-> "policy_failed", bullets |-> errors]

\* An exception that no handler of run_command or call_tool catches
Raised(exception) == [kind |-> "exception", name |-> exception]

(***************************************************************************)
(* The argument validator and the discovery mode of the specification      *)
(* (sections 4.1, 4.5 and 6), which src/climax.py does not hold.           *)
(***************************************************************************)
ArgumentError(arg_name, kind) == [arg |-> arg_name, kind |-> kind]

\* The error one declared argument adds: missing, not coercible, not in enum
ArgumentErrors(arg_def, arguments) ==
    IF arg_def.name \notin DOMAIN arguments
    THEN (IF arg_def.required THEN <<ArgumentError(arg_def.name, "missing")>> ELSE <<>>)
    ELSE LET value == arguments[arg_def.name]
             coercible ==
                CASE arg_def.type = "string" -> TRUE
                  [] arg_def.type = "boolean" ->
                        \/ value.k \in {"bool", "int"}
                        \/ value \in {VStr(<<"t", "r", "u", "e">>), VStr(<<"f", "a", "l", "s", "e">>)}
                  [] OTHER -> CanFloat(value) \/ value.k = "big"
         IN  IF ~coercible THEN <<ArgumentError(arg_def.name, "type")>>
             ELSE IF arg_def.enum # {} /\ Str(value) \notin arg_def.enum
                  THEN <<ArgumentError(arg_def.name, "enum")>>
                  ELSE <<>>

RECURSIVE ValidateToolArgsFrom(_, _, _)
ValidateToolArgsFrom(arguments, args, j) ==
    IF j > Len(args) THEN <<>>
    ELSE ArgumentErrors(args[j], arguments)
         \o ValidateToolArgsFrom(arguments, args, j + 1)

\* validate_tool_args: the error list
validate_tool_args(arguments, tool_def) ==
    ValidateToolArgsFrom(arguments, tool_def.args, 1)

\* validate_tool_args: the coerced values; unknown keys pass through
Coerced(arguments, tool_def) ==
    [n \in DOMAIN arguments |->
        IF \E j \in 1..Len(tool_def.args) : tool_def.args[j].name = n
        THEN LET arg_def == tool_def.args[CHOOSE j \in 1..Len(tool_def.args) :
                                            tool_def.args[j].name = n]
                 value == arguments[n]
             IN  CASE arg_def.type = "string" -> VStr(Str(value))
                   [] arg_def.type = "boolean" ->
                        VBool(value = VBool(TRUE) \/ value = VStr(<<"t", "r", "u", "e">>)
                              \/ (value.k = "int" /\ value.i # 0))
                   [] OTHER -> IF value.k = "big" THEN value ELSE VInt(Float(value))
        ELSE arguments[n]]

ArgumentFailed(errors) == [kind |-> "argument_failed", bullets |-> errors]

\* "Unknown tool: {name}. Available tools: {sorted, comma-joined}"
UnknownToolListing(name, registry) ==
    [kind |-> "unknown_tool", name |-> name, listed |-> TRUE,
     available |-> NameSet(registry)]

\* ToolIndex.from_configs: one entry per tool, a later tool of the same name
\* replacing the earlier entry and going last
RECURSIVE IndexTools(_, _, _)
IndexTools(entries, config, j) ==
    IF j > Len(config.tools) THEN entries
    ELSE IndexTools(
            Append(SelectSeq(entries, LAMBDA e : e.tool_name # config.tools[j].name),
                   [tool_name |-> config.tools[j].name, cli_name |-> config.name,
                    description |-> config.tools[j].description,
                    category |-> config.category, tags |-> config.tags]),
            config, j + 1)

RECURSIVE IndexFrom(_, _, _)
IndexFrom(entries, configs, j) ==
    IF j > Len(configs) THEN entries
    ELSE IndexFrom(IndexTools(entries, configs[j], 1), configs, j + 1)

from_configs(configs) == IndexFrom(<<>>, configs, 1)

\* str.lower() on the letters of the texts used here
LowerOf ==
    [ch \in {"C", "G", "I", "S", "T", "V"} |->
        CASE ch = "C" -> "c" [] ch = "G" -> "g" [] ch = "I" -> "i"
          [] ch = "S" -> "s" [] ch = "T" -> "t" [] OTHER -> "v"]

ToLower(t) == [j \in 1..Len(t) |-> IF t[j] \in DOMAIN LowerOf THEN LowerOf[t[j]] ELSE t[j]]

\* sub in t: sub is a run of consecutive characters of t
Contains(t, sub) ==
    \E j \in 0..(Len(t) - Len(sub)) : SubSeq(t, j + 1, j + Len(sub)) = sub

\* None becomes the empty text
TextOrEmpty(t) == IF t = "None" THEN <<>> ELSE t

\* The search blob of an entry: name, description, CLI name, category and
\* tags, in lower case
RECURSIVE JoinWords(_, _)
JoinWords(words, j) ==
    IF j > Len(words) THEN <<>> ELSE <<" ">> \o words[j] \o JoinWords(words, j + 1)

SearchBlob(entry) ==
    ToLower(entry.tool_name \o <<" ">> \o entry.description \o <<" ">> \o entry.cli_name
            \o <<" ">> \o TextOrEmpty(entry.category) \o JoinWords(entry.tags, 1))

\* A filter is supplied when its argument is not None
Supplied_truthy(v) == Truthy(v)

Supplied(v) == v.k # "none"

\* A variant that matches category and CLI name as substrings
Matches_substring(entry, query, category, cli) ==
    /\ Supplied(query) => Contains(SearchBlob(entry), ToLower(query.s))
    /\ Supplied(category) =>
        (entry.category # "None" /\ Contains(ToLower(entry.category), ToLower(category.s)))
    /\ Supplied(cli) => Contains(ToLower(entry.cli_name), ToLower(cli.s))

\* Every supplied filter holds of the entry
Matches(entry, query, category, cli) ==
    /\ Supplied(query) => Contains(SearchBlob(entry), ToLower(query.s))
    /\ Supplied(category) =>
        (entry.category # "None" /\ ToLower(entry.category) = ToLower(category.s))
    /\ Supplied(cli) => ToLower(entry.cli_name) = ToLower(cli.s)

\* search(query=None, category=None, cli=None, limit=10)
LimitOrDefault(limit) == IF limit.k = "none" THEN DefaultLimit ELSE limit.i

Take(seq, n) == SubSeq(seq, 1, IF n < Len(seq) THEN n ELSE Len(seq))

search(entries, query, category, cli, limit) ==
    Take(SelectSeq(entries, LAMBDA e : Matches(e, query, category, cli)),
         LimitOrDefault(limit))

\* summary(): one entry per CLI spec, in the order of the specs
summary(entries, configs) ==
    [j \in 1..Len(configs) |->
        [name |-> configs[j].name, category |-> configs[j].category,
         tool_count |-> Cardinality({m \in 1..Len(entries) :
                                        entries[m].cli_name = configs[j].name})]]

\* climax_search: search mode when a filter is supplied, summary mode otherwise
climax_search(entries, configs, query, category, cli, limit) ==
    IF Supplied(query) \/ Supplied(category) \/ Supplied(cli)
    THEN [kind |-> "search", mode |-> "search",
          results |-> search(entries, query, category, cli, limit)]
    ELSE [kind |-> "search", mode |-> "summary",
          results |-> Take(summary(entries, configs), LimitOrDefault(limit))]

\* climax_search with a cli filter: the matching entries of admitted tools
SearchResults(entries, registry, cli) ==
    SelectSeq(entries, LAMBDA e : e.cli_name = cli /\ e.tool_name \in NameSet(registry))

MetaTools == <<"climax_search", "climax_call">>

(***************************************************************************)
(* load_configs                                                            *)
(***************************************************************************)
\* class CLImaxConfig(BaseModel); category and tags are fields of the
\* specification (section 3)
CLImaxConfig(name, command, tools) ==
    [name |-> name, command |-> command, env |-> <<>>, tools |-> tools,
     category |-> "None", tags |-> <<>>]

\* for tool_def in config.tools: tool_map[tool_def.name] = ResolvedTool(...)
RECURSIVE LoadTools(_, _, _)
LoadTools(registry, config, j) ==
    IF j > Len(config.tools) THEN registry
    ELSE LoadTools(DictSet(registry,
                           [ResolvedTool(config.tools[j], config.command)
                                EXCEPT !.env = config.env]),
                   config, j + 1)

\* for path in paths: config = load_config(path); ...
RECURSIVE LoadFrom(_, _, _)
LoadFrom(registry, configs, j) ==
    IF j > Len(configs) THEN registry
    ELSE LoadFrom(LoadTools(registry, configs[j], 1), configs, j + 1)

load_configs(configs) == LoadFrom(<<>>, configs, 1)

(***************************************************************************)
(* State.                                                                  *)
(***************************************************************************)
VARIABLES
    loaded,     \* the registry load_configs returned
    policy,     \* the PolicyConfig of --policy, or NoPolicy
    tool_map,   \* the registry create_server was given
    classic,    \* TRUE: every tool is listed; FALSE: progressive discovery
    pc,         \* where the invocation in flight stands
    req,        \* the request: tool name, argument map, route
    cmd,        \* the argument vector built for the request
    chld,       \* the child process and its transport
    spawns,     \* how many times the request called create_subprocess_exec
    result,     \* (returncode, stdout, stderr) of run_command
    response,   \* what call_tool returned
    trace,      \* the stages the request went through, in order
    decls,      \* the declarations a generated tool was built from
    index,      \* the ToolIndex built from the loaded configs
    paths       \* the spec files of the command line, as load_config reads them

vars == <<loaded, policy, tool_map, classic, pc, req, cmd, chld, spawns,
          result, response, trace, decls, index, paths>>

NoPolicy == [present |-> FALSE]

NoResult == [returncode |-> 0, stdout |-> <<>>, stderr |-> <<>>]

NoResponse == [kind |-> "none"]

(***************************************************************************)
(* Generated tools for build_command: the j-th declared argument of a tool *)
(* has its own name, flags and values, so that every token of a command    *)
(* vector has one possible origin.                                         *)
(***************************************************************************)
ArgName(j) == <<"a", "_", Digits[j + 1]>>

ShortFlag(j) == <<"-", "f", Digits[j + 1]>>

InlineFlag(j) == <<"k", Digits[j + 1], "=">>

TextValue(j) == VStr(<<"v", Digits[j + 1]>>)

TextDefault(j) == VStr(<<"d", Digits[j + 1]>>)

NumberValue(j) == VInt(90 + j)

FlagDecls(j) ==
    {Decl(ArgName(j), "string", FALSE, d, f, FALSE, FALSE, FALSE) :
        d \in {VNone, TextDefault(j)}, f \in {NoFlag, ShortFlag(j), InlineFlag(j)}}

PositionalDecls(j) ==
    {Decl(ArgName(j), "string", FALSE, d, NoFlag, TRUE, FALSE, FALSE) :
        d \in {VNone, TextDefault(j)}}

\* arguments declared cwd=True or stdin=True, of either shape
RoleDecls(j) ==
    {Decl(ArgName(j), "string", FALSE, VNone, f, FALSE, c, ~c) :
        f \in {NoFlag, ShortFlag(j)}, c \in BOOLEAN}
    \cup {Decl(ArgName(j), "string", FALSE, VNone, NoFlag, TRUE, c, ~c) :
        c \in BOOLEAN}

BooleanDecls(j) ==
    {Decl(ArgName(j), "boolean", FALSE, d, f, FALSE, FALSE, FALSE) :
        d \in {VNone, VBool(TRUE)}, f \in {NoFlag, ShortFlag(j)}}
    \cup {Decl(ArgName(j), "boolean", FALSE, VNone, InlineFlag(j), FALSE, FALSE, FALSE)}

\* arguments declared required: a flag, a positional, a boolean flag, and a
\* positional that is the working directory
RequiredDecls(j) ==
    {Decl(ArgName(j), "string", TRUE, VNone, ShortFlag(j), FALSE, FALSE, FALSE),
     Decl(ArgName(j), "string", TRUE, VNone, NoFlag, TRUE, FALSE, FALSE),
     Decl(ArgName(j), "boolean", TRUE, VNone, ShortFlag(j), FALSE, FALSE, FALSE),
     Decl(ArgName(j), "string", TRUE, VNone, NoFlag, TRUE, TRUE, FALSE)}

Decls(j) ==
    FlagDecls(j) \cup PositionalDecls(j) \cup RoleDecls(j) \cup BooleanDecls(j)
    \cup RequiredDecls(j)

\* The values a caller may send for a declaration (Absent: key not sent)
Absent == [k |-> "absent", b |-> FALSE, i |-> 0, s |-> <<>>]

ValuesFor(d, j) ==
    IF d.type = "boolean"
    THEN {VBool(TRUE), VInt(1)}
         \cup (IF d.flag = InlineFlag(j) THEN {}
               ELSE {Absent, VBool(FALSE), VStr(<<"t", "r", "u", "e">>)})
    ELSE IF d.cwd \/ d.stdin THEN {TextValue(j)}
    ELSE {Absent, VNone, TextValue(j)}
         \cup (IF d.default = VNone /\ d.flag # InlineFlag(j)
               THEN {NumberValue(j)} ELSE {})

\* A declaration for position j with a value sent for it
Pairs(j) == UNION {{[d |-> d, v |-> v] : v \in ValuesFor(d, j)} : d \in Decls(j)}

\* Base commands and subcommands, with the tokens they must come out as,
\* and the global_args their config document declares, with the tokens the
\* command vector is to end with for them
HeadCases ==
    {[base |-> <<"g", "i", "t">>, command |-> <<"a", "d", "d">>,
      head |-> << <<"g", "i", "t">>, <<"a", "d", "d">> >>,
      global_args |->
        <<Decl(<<"v", "a", "u", "l", "t">>, "string", FALSE, VStr(<<"w", "o", "r", "k">>), <<"v", "a", "u", "l", "t", "=">>, FALSE, FALSE, FALSE)>>,
      tail |-> <<<<"v", "a", "u", "l", "t", "=", "w", "o", "r", "k">>>>],
     [base |-> <<"p", "y", " ", "-", "m", " ", " ", "x">>, command |-> <<>>,
      head |-> << <<"p", "y">>, <<"-", "m">>, <<"x">> >>,
      global_args |->
        <<Decl(<<"h", "o", "m", "e">>, "string", FALSE, VStr(<<"$", "H", "O", "M", "E">>), <<"-", "-", "h", "o", "m", "e">>, FALSE, FALSE, FALSE),
          Decl(<<"g", "o", "n", "e">>, "string", FALSE, VStr(<<"$", "U", "N", "S", "E", "T">>), <<"-", "-", "g", "o", "n", "e">>, FALSE, FALSE, FALSE),
          Decl(<<"b", "a", "r", "e">>, "string", FALSE, VNone, <<"-", "-", "b", "a", "r", "e">>, FALSE, FALSE, FALSE)>>,
      tail |-> <<<<"-", "-", "h", "o", "m", "e">>, <<"/", "h">>>>]}

(***************************************************************************)
(* SpecBuild: build_command applied to generated tools and argument maps.  *)
(***************************************************************************)
InitBuild ==
    /\ \E h \in HeadCases :
        loaded = <<ResolvedTool(ToolDef("t", "test", h.command, <<>>, 0), h.base)>>
    /\ decls = <<>>
    /\ req = [name |-> "t", arguments |-> <<>>, via |-> "build_command"]
    /\ policy = NoPolicy
    /\ tool_map = <<>>
    /\ classic = TRUE
    /\ pc = "declare"
    /\ cmd = <<>>
    /\ chld = "none"
    /\ spawns = 0
    /\ result = NoResult
    /\ response = NoResponse
    /\ trace = <<>>
    /\ index = <<>>
    /\ paths = <<>>

\* One more argument is declared for the tool, and a value sent for it or not
DeclareArgument ==
    /\ pc = "declare"
    /\ Len(decls) < MaxArgs
    /\ \E p \in Pairs(Len(decls) + 1) :
        /\ decls' = Append(decls, p.d)
        /\ loaded' = <<ResolvedTool(
                ToolDef("t", "test", loaded[1].tool.command, decls', 0),
                loaded[1].base_command)>>
        /\ req' = [req EXCEPT !.arguments =
                IF p.v = Absent THEN @ ELSE (p.d.name :> p.v) @@ @]
    /\ UNCHANGED <<policy, tool_map, classic, pc, cmd, chld, spawns, result,
                   response, trace, index, paths>>

BuildCommand ==
    /\ pc = "declare"
    /\ cmd' = build_command(loaded[1].base_command, loaded[1].tool, req.arguments)
    /\ pc' = "built"
    /\ UNCHANGED <<loaded, policy, tool_map, classic, req, chld, spawns,
                   result, response, trace, decls, index, paths>>

\* The round trip of an invocation: the raw argument map is validated and
\* coerced, and the command is built from the coerced values
CoerceAndBuild ==
    /\ pc = "declare"
    /\ \A n \in DOMAIN req.arguments : req.arguments[n] # VNone
    /\ validate_tool_args(req.arguments, loaded[1].tool) = <<>>
    /\ cmd' = build_command(loaded[1].base_command, loaded[1].tool,
                            Coerced(req.arguments, loaded[1].tool))
    /\ pc' = "round_trip"
    /\ UNCHANGED <<loaded, policy, tool_map, classic, req, chld, spawns,
                   result, response, trace, decls, index, paths>>

\* list_tools: the input schema of the tool
ListBuiltTool ==
    /\ pc = "built"
    /\ response' = [kind |-> "tools", names |-> <<loaded[1].tool.name>>,
                    inputSchema |-> build_input_schema(loaded[1].tool.args)]
    /\ pc' = "listed"
    /\ UNCHANGED <<loaded, policy, tool_map, classic, req, cmd, chld, spawns,
                   result, trace, decls, index, paths>>

NextBuild == DeclareArgument \/ BuildCommand \/ CoerceAndBuild \/ ListBuiltTool

SpecBuild == InitBuild /\ [][NextBuild]_vars

(***************************************************************************)
(* Properties of build_command (SpecBuild).                                *)
(***************************************************************************)
Chars(t) == {t[m] : m \in 1..Len(t)}

\* A token that can only come from the j-th declared argument
Mentions(t, j) == Digits[j + 1] \in Chars(t)

BuiltTool == loaded[1].tool

BuiltHead ==
    (CHOOSE h \in HeadCases :
        h.base = loaded[1].base_command /\ h.command = BuiltTool.command).head

\* The positional arguments the caller supplied
SuppliedPositionals ==
    {j \in 1..Len(BuiltTool.args) :
        BuiltTool.args[j].positional /\ BuiltTool.args[j].name \in DOMAIN req.arguments}

\* The explicit value of an argument, else its default
Resolved(j) ==
    LET a == BuiltTool.args[j] IN
    IF a.name \in DOMAIN req.arguments /\ req.arguments[a.name] # VNone
    THEN req.arguments[a.name] ELSE a.default

\* The flag of the j-th argument: as declared, else --a-j
ExpectedFlag(j) ==
    IF BuiltTool.args[j].flag # NoFlag THEN BuiltTool.args[j].flag
    ELSE <<"-", "-", "a", "-", Digits[j + 1]>>

Occurrences(t) == Cardinality({m \in 1..Len(cmd) : cmd[m] = t})

BooleanFlags ==
    {j \in 1..Len(BuiltTool.args) :
        BuiltTool.args[j].type = "boolean" /\ ~BuiltTool.args[j].positional}

CexC9_TruthyValueAddsFlag ==
    pc = "built" =>
        \A j \in BooleanFlags :
            /\ Occurrences(ExpectedFlag(j)) = IF Truthy(Resolved(j)) THEN 1 ELSE 0
            /\ Resolved(j) # VNone =>
                \A m \in 1..Len(cmd) :
                    /\ cmd[m] # Str(Resolved(j))
                    /\ cmd[m] # ExpectedFlag(j) \o Str(Resolved(j))

\* C9 amended: a boolean flag argument adds exactly its flag token, and never
\* a value token, when the resolved value is the boolean true or the string
\* "true", and adds nothing for any other value.
ThmC9_TrueValueAddsFlag ==
    pc = "built" =>
        \A j \in BooleanFlags :
            /\ Occurrences(ExpectedFlag(j)) =
                IF Resolved(j) \in {VBool(TRUE), VStr(<<"t", "r", "u", "e">>)}
                THEN 1 ELSE 0
            /\ Resolved(j) # VNone =>
                \A m \in 1..Len(cmd) :
                    /\ cmd[m] # Str(Resolved(j))
                    /\ cmd[m] # ExpectedFlag(j) \o Str(Resolved(j))

\* A boolean flag left out by the caller and true by default, rendered, next
\* to a boolean flag sent as the integer 1, not rendered
WitC9_BooleanFlags ==
    /\ pc = "built"
    /\ \E j \in BooleanFlags :
        /\ BuiltTool.args[j].name \notin DOMAIN req.arguments
        /\ Resolved(j) = VBool(TRUE)
        /\ Occurrences(ExpectedFlag(j)) = 1
    /\ \E j \in BooleanFlags :
        /\ Resolved(j) = VInt(1)
        /\ Occurrences(ExpectedFlag(j)) = 0

\* C10: an argument declared cwd or stdin adds no token, neither its flag
\* nor its value, whatever its shape.
CexC10_RoleArgumentsExcluded ==
    pc = "built" =>
        \A j \in 1..Len(decls) :
            (decls[j].cwd \/ decls[j].stdin) =>
                \A m \in 1..Len(cmd) : ~Mentions(cmd[m], j)

\* The tokens of the command vector that come from the j-th argument
OwnTokens(j) == SelectSeq(cmd, LAMBDA t : Mentions(t, j))

\* The flag arguments that are not declared cwd or stdin
PlainFlags ==
    {j \in 1..Len(BuiltTool.args) :
        ~BuiltTool.args[j].positional /\ ~decls[j].cwd /\ ~decls[j].stdin}

\* The value the caller sent for the j-th argument, Absent when none
SentValue(j) ==
    IF BuiltTool.args[j].name \in DOMAIN req.arguments
    THEN req.arguments[BuiltTool.args[j].name] ELSE Absent

\* The text of a value, as a token or at the end of an inline token
Renders(t, v) ==
    Len(t) >= Len(Str(v)) /\ SubSeq(t, Len(t) - Len(Str(v)) + 1, Len(t)) = Str(v)

\* C11: in the flag pass a non-positional argument renders the value the
\* caller sent, which overrides the default; with no value sent it renders
\* the default; with neither it adds no token.
ThmC11_ValueElseDefaultElseNothing ==
    pc = "built" =>
        \A j \in PlainFlags :
            LET a == BuiltTool.args[j]
                sent == SentValue(j)
                given == sent \notin {Absent, VNone}
                chosen == IF given THEN sent ELSE a.default
            IN  /\ (~given /\ a.default = VNone) => OwnTokens(j) = <<>>
                /\ (a.type # "boolean" /\ chosen # VNone)
                   => /\ Cardinality({m \in 1..Len(cmd) :
                            Mentions(cmd[m], j) /\ Renders(cmd[m], chosen)}) = 1
                      /\ \A m \in 1..Len(cmd) :
                            Mentions(cmd[m], j) =>
                                cmd[m] \in {ExpectedFlag(j), Str(chosen),
                                            ExpectedFlag(j) \o Str(chosen)}
                /\ (a.type = "boolean" /\ given /\ sent = VBool(FALSE))
                   => OwnTokens(j) = <<>>

\* One argument sent with a value although it has a default, and one with
\* neither a value nor a default
WitC11_OverrideAndOmission ==
    /\ pc = "built"
    /\ \E j \in PlainFlags :
        /\ BuiltTool.args[j].default = TextDefault(j)
        /\ SentValue(j) = TextValue(j)
        /\ \E m \in 1..Len(cmd) : Renders(cmd[m], TextValue(j))
    /\ \E j \in PlainFlags :
        /\ BuiltTool.args[j].default = VNone
        /\ SentValue(j) = Absent
        /\ OwnTokens(j) = <<>>

\* The non-boolean flag arguments that have a resolved value
ValuedFlags ==
    {j \in PlainFlags : BuiltTool.args[j].type # "boolean" /\ Resolved(j) # VNone}

\* C12: a non-boolean flag argument with a resolved value adds the single
\* token flag+str(value) when its flag ends with "=", and otherwise the two
\* tokens flag, str(value); the flag is the declared one, else "--" and the
\* name with "_" replaced by "-".
ThmC12_InlineOrSeparateTokens ==
    pc = "built" =>
        \A j \in ValuedFlags :
            LET flag == ExpectedFlag(j)
                text == Str(Resolved(j))
            IN  IF flag[Len(flag)] = "="
                THEN OwnTokens(j) = <<flag \o text>>
                ELSE /\ OwnTokens(j) = <<flag, text>>
                     /\ \E m \in 1..(Len(cmd) - 1) : cmd[m] = flag /\ cmd[m + 1] = text

\* An argument with an inline flag and one with a generated flag, both with
\* a value
WitC12_InlineAndGeneratedFlag ==
    /\ pc = "built"
    /\ \E j \in ValuedFlags :
        /\ BuiltTool.args[j].flag = InlineFlag(j)
        /\ Len(OwnTokens(j)) = 1
    /\ \E j \in ValuedFlags :
        /\ BuiltTool.args[j].flag = NoFlag
        /\ Resolved(j) = NumberValue(j)
        /\ Len(OwnTokens(j)) = 2

\* The config document the built tool came from
BuiltConfig ==
    CHOOSE h \in HeadCases :
        h.base = loaded[1].base_command /\ h.command = BuiltTool.command

\* C13: the command vector ends with the tokens of the CLI's global_args,
\* after every tool-level token: a default is rendered by the flag rules, a
\* default "$NAME" by the value of the environment variable, and a global
\* argument with no default, or with an unset or empty variable, is left out.
CexC13_GlobalArgsComeLast ==
    pc = "built" =>
        LET tail == BuiltConfig.tail IN
        /\ Len(cmd) >= Len(BuiltHead) + Len(tail)
        /\ SubSeq(cmd, Len(cmd) - Len(tail) + 1, Len(cmd)) = tail

\* The coerced value of the j-th argument in the round trip
CoercedValue(j) == Coerced(req.arguments, BuiltTool)[BuiltTool.args[j].name]

\* C14: after validation and coercion of a valid raw argument map, the
\* command vector holds each required argument once (its flag and value, or
\* its positional value; for a boolean its flag, when the value is true) and
\* holds no value of an argument declared cwd or stdin.
CexC14_RoundTripRendersRequiredOnce ==
    pc = "round_trip" =>
        \A j \in 1..Len(decls) :
            LET d == decls[j]
                role == d.cwd \/ d.stdin
            IN  /\ (d.required /\ ~role /\ d.positional)
                   => Occurrences(Str(CoercedValue(j))) = 1
                /\ (d.required /\ ~role /\ ~d.positional /\ d.type # "boolean")
                   => /\ Occurrences(ExpectedFlag(j)) = 1
                      /\ Occurrences(Str(CoercedValue(j))) = 1
                /\ (d.required /\ ~role /\ ~d.positional /\ d.type = "boolean")
                   => Occurrences(ExpectedFlag(j)) =
                        IF CoercedValue(j) = VBool(TRUE) THEN 1 ELSE 0
                /\ (role /\ d.name \in DOMAIN req.arguments)
                   => \A m \in 1..Len(cmd) : ~Renders(cmd[m], CoercedValue(j))

\* The argument map without the keys whose value is None
WithoutNone(arguments) ==
    [n \in {m \in DOMAIN arguments : arguments[m] # VNone} |-> arguments[n]]

\* C29: for every tool and every argument of it, positional or flag, sending
\* None for the argument gives the command vector that leaving the argument
\* out of the map gives.
CexC29_NoneIsAsOmitted ==
    pc \in {"built", "listed"} =>
        cmd = build_command(loaded[1].base_command, loaded[1].tool,
                            WithoutNone(req.arguments))

\* The same for the flag arguments alone (holds)
NoneFlagIsAsOmitted ==
    (pc \in {"built", "listed"}
     /\ \A j \in 1..Len(BuiltTool.args) :
            BuiltTool.args[j].positional => SentValue(j) # VNone)
    => cmd = build_command(loaded[1].base_command, loaded[1].tool,
                           WithoutNone(req.arguments))

\* The positional arguments the caller left out of the map
OmittedPositionals ==
    {j \in 1..Len(BuiltTool.args) :
        BuiltTool.args[j].positional /\ SentValue(j) = Absent}

\* The flag arguments with a value of their own that the caller left out
OmittedValuedFlags ==
    {j \in PlainFlags : BuiltTool.args[j].type # "boolean" /\ SentValue(j) = Absent}

\* C30: a positional argument the caller does not send adds no token to the
\* command vector, with or without a declared default, while the schema
\* list_tools returns for the tool carries that default; a flag argument the
\* caller does not send renders its default.
ThmC30_DefaultsFillFlagsOnly ==
    pc = "listed" =>
        /\ \A j \in OmittedPositionals :
            /\ OwnTokens(j) = <<>>
            /\ LET prop == response.inputSchema.properties[BuiltTool.args[j].name]
               IN  /\ prop.has_default <=> BuiltTool.args[j].default # VNone
                   /\ prop.has_default => prop.default = BuiltTool.args[j].default
        /\ \A j \in OmittedValuedFlags :
            BuiltTool.args[j].default # VNone =>
                /\ OwnTokens(j) # <<>>
                /\ Renders(OwnTokens(j)[Len(OwnTokens(j))], BuiltTool.args[j].default)

\* A positional argument with a default was left out: the schema shows the
\* default and the command has no token of it, next to a flag argument whose
\* default was rendered
WitC30_PositionalDefaultUnused ==
    /\ pc = "listed"
    /\ \E j \in OmittedPositionals :
        /\ BuiltTool.args[j].default = TextDefault(j)
        /\ response.inputSchema.properties[BuiltTool.args[j].name].default = TextDefault(j)
        /\ OwnTokens(j) = <<>>
    /\ \E j \in OmittedValuedFlags :
        /\ BuiltTool.args[j].default = TextDefault(j)
        /\ OwnTokens(j) # <<>>

(***************************************************************************)
(* SpecPolicy: apply_policy applied to generated registries and policies.  *)
(***************************************************************************)
ArgP == <<"p">>

ArgQ == <<"q">>

ArgUnknown == <<"z", "z">>

\* The tools a generated registry is made of
PolicyToolNames == {"a", "b", "c"}

PolicyTool(name) ==
    LET p == Decl(ArgP, "string", FALSE, VNone, NoFlag, FALSE, FALSE, FALSE)
        q == Decl(ArgQ, "integer", FALSE, VNone, NoFlag, FALSE, FALSE, FALSE)
    IN  ResolvedTool(
            ToolDef(name, "about", <<>>,
                    CASE name = "a" -> <<p>> [] name = "b" -> <<p, q>> [] OTHER -> <<>>,
                    0),
            <<"x">>)

LowerWord == <<Atom("lower", "", "plus")>>

\* The tool policies a generated policy is made of
ToolPolicies ==
    {ToolPolicy("None", <<>>),
     ToolPolicy("new", <<>>),
     ToolPolicy("None", <<Item(ArgP, PatternOnly(LowerWord))>>),
     ToolPolicy("None", <<Item(ArgUnknown, Range(1, 5))>>),
     ToolPolicy("new", <<Item(ArgUnknown, PatternOnly(LowerWord)),
                         Item(ArgP, Range(1, 5))>>)}

InitPolicy ==
    /\ loaded = <<>>
    /\ \E d \in {"enabled", "disabled"} : policy = PolicyConfig(LocalExecutor, d, <<>>)
    /\ tool_map = <<>>
    /\ classic = TRUE
    /\ pc = "declare"
    /\ req = [name |-> "", arguments |-> <<>>, via |-> "apply_policy"]
    /\ cmd = <<>>
    /\ chld = "none"
    /\ spawns = 0
    /\ result = NoResult
    /\ response = NoResponse
    /\ trace = <<>>
    /\ index = <<>>
    /\ paths = <<>>
    /\ decls = <<>>

\* load_configs stores one more tool
LoadTool ==
    /\ pc = "declare"
    /\ Len(loaded) < MaxTools
    /\ \E name \in PolicyToolNames \ NameSet(loaded) :
        loaded' = DictSet(loaded, PolicyTool(name))
    /\ UNCHANGED <<policy, tool_map, classic, pc, req, cmd, chld, spawns,
                   result, response, trace, decls, index, paths>>

\* The policy file holds one more tool entry
WritePolicyEntry ==
    /\ pc = "declare"
    /\ \E name \in (PolicyToolNames \cup {"ghost"}) \ DOMAIN policy.tools :
       \E tool_policy \in ToolPolicies :
        policy' = [policy EXCEPT !.tools = (name :> tool_policy) @@ @]
    /\ UNCHANGED <<loaded, tool_map, classic, pc, req, cmd, chld, spawns,
                   result, response, trace, decls, index, paths>>

ApplyPolicy ==
    /\ pc = "declare"
    /\ tool_map' = apply_policy(loaded, policy)
    /\ pc' = "applied"
    /\ UNCHANGED <<loaded, policy, classic, req, cmd, chld, spawns, result,
                   response, trace, decls, index, paths>>

\* The holder of the returned registry changes, in place, an object that an
\* entry of it refers to: the timeout of its ToolDef, or an item of its
\* arg_constraints dict. The input registry refers to the same object when
\* the copy shares it.
WriteThroughResult ==
    /\ pc = "applied"
    /\ \E j \in 1..Len(tool_map), field \in {"tool", "arg_constraints"} :
        LET name == tool_map[j].tool.name
            written(resolved) ==
                IF field = "tool"
                THEN [resolved EXCEPT !.tool.timeout = 9]
                ELSE [resolved EXCEPT !.arg_constraints =
                        Append(@, Item(ArgUnknown, PatternOnly(LowerWord)))]
        IN  /\ tool_map' = [tool_map EXCEPT ![j] = written(@)]
            /\ loaded' =
                [m \in 1..Len(loaded) |->
                    IF /\ loaded[m].tool.name = name
                       /\ field \in SharedWithInput(loaded[m], policy)
                    THEN written(loaded[m]) ELSE loaded[m]]
    /\ pc' = "written"
    /\ UNCHANGED <<policy, classic, req, cmd, chld, spawns, result, response,
                   trace, decls, index, paths>>

NextPolicy == LoadTool \/ WritePolicyEntry \/ ApplyPolicy \/ WriteThroughResult

SpecPolicy == InitPolicy /\ [][NextPolicy]_vars

\* C3: the result of apply_policy holds exactly the input names that have a
\* tool policy when the default is disabled, and exactly all input names when
\* the default is enabled.
ThmC3_PolicyFiltersNames ==
    pc = "applied" =>
        /\ Cardinality(NameSet(tool_map)) = Len(tool_map)
        /\ NameSet(tool_map) =
            IF policy.default = "disabled"
            THEN {n \in NameSet(loaded) : n \in DOMAIN policy.tools}
            ELSE NameSet(loaded)

\* A disabled default that drops one loaded tool and keeps another
WitC3_OneDroppedOneKept ==
    /\ pc = "applied"
    /\ policy.default = "disabled"
    /\ \E n \in NameSet(loaded) : n \notin NameSet(tool_map)
    /\ \E n \in NameSet(loaded) : n \in NameSet(tool_map)
    /\ "ghost" \in DOMAIN policy.tools

\* C17: apply_policy leaves every entry of its input registry as it was, and
\* what it returns is independent of the input: a change made through the
\* returned registry does not show in the input.
CexC17_ResultIndependentOfInput ==
    [][pc' \in {"applied", "written"} => loaded' = loaded]_vars

\* The names a policy mentions that the registry it is applied to lacks
AbsentTools == DOMAIN policy.tools \ NameSet(loaded)

\* The tools of the registry whose policy entry constrains an argument the
\* tool does not declare
WithAbsentArgs ==
    {m \in 1..Len(loaded) :
        /\ HasToolPolicy(policy, loaded[m].tool.name)
        /\ \E j \in 1..Len(policy.tools[loaded[m].tool.name].args) :
            policy.tools[loaded[m].tool.name].args[j].name
                \notin {loaded[m].tool.args[k].name : k \in 1..Len(loaded[m].tool.args)}}

\* C18: apply_policy returns a registry whatever the policy names: a tool name
\* the registry lacks is never in the result, and in every entry of the result
\* the keys of arg_constraints are among the tool's declared argument names.
ThmC18_AbsentNamesAreSkipped ==
    pc = "applied" =>
        /\ NameSet(tool_map) \cap AbsentTools = {}
        /\ \A j \in 1..Len(tool_map) :
            {tool_map[j].arg_constraints[k].name :
                k \in 1..Len(tool_map[j].arg_constraints)}
            \subseteq {tool_map[j].tool.args[k].name :
                        k \in 1..Len(tool_map[j].tool.args)}

\* A policy naming an absent tool and an undeclared argument of a present
\* tool was applied, and the present tool kept a declared constraint
WitC18_AbsentToolAndArgumentApplied ==
    /\ pc = "applied"
    /\ AbsentTools # {}
    /\ WithAbsentArgs # {}
    /\ \E j \in 1..Len(tool_map) :
        /\ tool_map[j].arg_constraints # <<>>
        /\ \E m \in WithAbsentArgs : loaded[m].tool.name = tool_map[j].tool.name

(***************************************************************************)
(* SpecValidate: validate_arguments applied to generated constraints and   *)
(* argument maps.                                                          *)
(***************************************************************************)
ConstrainedName(j) == <<"n", Digits[j + 1]>>

\* Constraints: a pattern, a lower bound, an upper bound, a range, and a
\* pattern with bounds that no number satisfies
Constraints ==
    {PatternOnly(LowerWord),
     ArgConstraint(FALSE, <<>>, TRUE, 1, FALSE, 0),
     ArgConstraint(FALSE, <<>>, FALSE, 0, TRUE, 5),
     Range(1, 5),
     ArgConstraint(TRUE, LowerWord, TRUE, 3, TRUE, 1)}

\* Values: text that matches, text of which only a prefix or a suffix
\* matches, numerals, numbers at, inside and outside the bounds, a boolean,
\* None, and an integer too large for a float
ConstrainedValues ==
    {Absent, VNone, VStr(<<"a", "b", "c">>), VStr(<<"a", "b", "c", "1", "2", "3">>), VStr(<<"1", "a", "b", "c">>), VStr(<<"2">>),
     VInt(0), VInt(1), VInt(3), VInt(5), VInt(6), VBool(TRUE), VBig}

InitValidate ==
    /\ loaded = <<ResolvedTool(ToolDef("test", "Test", <<>>, <<>>, 0), <<"x">>)>>
    /\ req = [name |-> "test", arguments |-> <<>>, via |-> "validate_arguments"]
    /\ policy = NoPolicy
    /\ tool_map = <<>>
    /\ classic = TRUE
    /\ pc = "declare"
    /\ cmd = <<>>
    /\ chld = "none"
    /\ spawns = 0
    /\ result = NoResult
    /\ response = NoResponse
    /\ trace = <<>>
    /\ decls = <<>>
    /\ index = <<>>
    /\ paths = <<>>

\* One more argument is declared and constrained, and a value sent for it
\* or not
ConstrainArgument ==
    /\ pc = "declare"
    /\ Len(decls) < MaxConstraints
    /\ \E c \in Constraints, v \in ConstrainedValues :
        LET name == ConstrainedName(Len(decls) + 1) IN
        /\ decls' = Append(decls,
                Decl(name, "string", FALSE, VNone, NoFlag, FALSE, FALSE, FALSE))
        /\ loaded' = <<[ResolvedTool(ToolDef("test", "Test", <<>>, decls', 0), <<"x">>)
                        EXCEPT !.arg_constraints =
                            Append(loaded[1].arg_constraints, Item(name, c))]>>
        /\ req' = [req EXCEPT !.arguments = IF v = Absent THEN @ ELSE (name :> v) @@ @]
    /\ UNCHANGED <<policy, tool_map, classic, pc, cmd, chld, spawns, result,
                   response, trace, index, paths>>

\* validate_arguments: the list of errors, or an exception
Validate ==
    /\ pc = "declare"
    /\ response' =
        IF ValidateRaises(req.arguments, loaded[1].arg_constraints)
        THEN Raised("OverflowError")
        ELSE [kind |-> "errors",
              bullets |-> validate_arguments(req.arguments, loaded[1].tool,
                                             loaded[1].arg_constraints)]
    /\ pc' = "validated"
    /\ UNCHANGED <<loaded, policy, tool_map, classic, req, cmd, chld, spawns,
                   result, trace, decls, index, paths>>

NextValidate == ConstrainArgument \/ Validate

SpecValidate == InitValidate /\ [][NextValidate]_vars

(***************************************************************************)
(* Properties of validate_arguments (SpecValidate).                        *)
(***************************************************************************)
\* The value parses as a number
Parses(v) == v.k \in {"int", "bool", "big"} \/ (v.k = "str" /\ IsNumeral(v.s))

Below(v, bound) == v.k # "big" /\ Float(v) < bound

Above(v, bound) == v.k = "big" \/ Float(v) > bound

\* The errors reported for one argument, of one kind
Reported(name, kind) ==
    Cardinality({m \in 1..Len(response.bullets) :
        response.bullets[m].arg = name /\ response.bullets[m].kind = kind})

\* C15: validate_arguments returns one error per violated constraint and
\* nothing else: a bound is violated iff the value parses as a number and is
\* strictly beyond it; values that are no numbers and arguments that are
\* absent add nothing; the errors of all arguments are collected.
CexC15_OneErrorPerViolatedBound ==
    pc = "validated" =>
        /\ response.kind = "errors"
        /\ \A j \in 1..Len(loaded[1].arg_constraints) :
            LET name == loaded[1].arg_constraints[j].name
                c == loaded[1].arg_constraints[j].constraint
                present == name \in DOMAIN req.arguments
                v == req.arguments[name]
            IN  /\ Reported(name, "min") =
                    IF present /\ c.has_min /\ Parses(v) /\ Below(v, c.min) THEN 1 ELSE 0
                /\ Reported(name, "max") =
                    IF present /\ c.has_max /\ Parses(v) /\ Above(v, c.max) THEN 1 ELSE 0
                /\ ~present => \A m \in 1..Len(response.bullets) :
                                    response.bullets[m].arg # name
        /\ \A m \in 1..Len(response.bullets) :
            \E j \in 1..Len(loaded[1].arg_constraints) :
                response.bullets[m].arg = loaded[1].arg_constraints[j].name

\* Text that "[a-z]+" matches as a whole
AllLower(t) == t # <<>> /\ \A m \in 1..Len(t) : t[m] \in Lower

\* C16: a pattern constraint accepts a string only when the expression
\* matches the whole of it; a string of which only a part matches is
\* refused with one error; values that are no strings are not checked.
ThmC16_PatternMatchesWholeValue ==
    (pc = "validated" /\ response.kind = "errors") =>
        \A j \in 1..Len(loaded[1].arg_constraints) :
            LET name == loaded[1].arg_constraints[j].name
                c == loaded[1].arg_constraints[j].constraint
                present == name \in DOMAIN req.arguments
                v == req.arguments[name]
            IN  c.has_pattern =>
                    /\ Reported(name, "pattern") =
                        IF present /\ v.k = "str" /\ ~AllLower(v.s) THEN 1 ELSE 0
                    /\ \A m \in 1..Len(response.bullets) :
                        (response.bullets[m].arg = name
                         /\ response.bullets[m].kind = "pattern")
                        => response.bullets[m].value = v

\* "abc123" refused with one error, next to a number that is not checked
WitC16_PrefixMatchRefused ==
    /\ pc = "validated"
    /\ response.kind = "errors"
    /\ Len(loaded[1].arg_constraints) = 2
    /\ loaded[1].arg_constraints[1].constraint = PatternOnly(LowerWord)
    /\ loaded[1].arg_constraints[2].constraint = PatternOnly(LowerWord)
    /\ ConstrainedName(1) \in DOMAIN req.arguments
    /\ ConstrainedName(2) \in DOMAIN req.arguments
    /\ req.arguments[ConstrainedName(1)] = VStr(<<"a", "b", "c", "1", "2", "3">>)
    /\ req.arguments[ConstrainedName(2)] = VInt(3)
    /\ Len(response.bullets) = 1
    /\ response.bullets[1].kind = "pattern"

(***************************************************************************)
(* SpecLoad: load_configs and the index applied to generated spec files.   *)
(***************************************************************************)
\* The tool names a generated spec file defines
LoadNames == {"x", "y", "z"}

\* The tool lists of a generated spec file: one or two tools
LoadToolLists(cli) ==
    LET tool(name) ==
            ToolDef(name, cli, <<>>,
                    IF cli = "first"
                    THEN <<Decl(ArgP, "string", FALSE, VNone, NoFlag, FALSE, FALSE, FALSE)>>
                    ELSE <<Decl(ArgQ, "integer", FALSE, VNone, NoFlag, FALSE, FALSE, FALSE)>>,
                    0)
    IN  {<<tool(n)>> : n \in LoadNames}
        \cup {<<tool(q[1]), tool(q[2])>> :
                q \in {r \in LoadNames \X LoadNames : r[1] # r[2]}}

\* The spec files: "first" runs echo, "second" runs printf with an env entry
LoadableConfigs ==
    {CLImaxConfig("first", <<"e", "c", "h", "o">>, tools) :
        tools \in LoadToolLists("first")}
    \cup {[CLImaxConfig("second", <<"p", "r", "i", "n", "t", "f">>, tools)
            EXCEPT !.env = <<[name |-> "K", value |-> "v"]>>] :
          tools \in LoadToolLists("second")}

InitLoad ==
    /\ loaded = <<>>
    /\ policy = NoPolicy
    /\ tool_map = <<>>
    /\ classic = TRUE
    /\ pc = "declare"
    /\ req = [name |-> "", arguments |-> <<>>, via |-> "load_configs"]
    /\ cmd = <<>>
    /\ chld = "none"
    /\ spawns = 0
    /\ result = NoResult
    /\ response = NoResponse
    /\ trace = <<>>
    /\ index = <<>>
    /\ decls = <<>>
    /\ paths = <<>>

\* The command line names one more spec file
WriteSpecPath ==
    /\ pc = "declare"
    /\ Len(paths) < MaxConfigs
    /\ \E config \in LoadableConfigs : paths' = Append(paths, config)
    /\ UNCHANGED <<loaded, policy, tool_map, classic, pc, req, cmd, chld, spawns,
                   result, response, trace, decls, index>>

\* load_configs(paths), and the index built from the same configs
LoadConfigs ==
    /\ pc = "declare"
    /\ paths # <<>>
    /\ loaded' = load_configs(paths)
    /\ tool_map' = load_configs(paths)
    /\ index' = from_configs(paths)
    /\ pc' = "loaded"
    /\ UNCHANGED <<policy, classic, req, cmd, chld, spawns, result, response,
                   trace, decls, paths>>

NextLoad == WriteSpecPath \/ LoadConfigs

SpecLoad == InitLoad /\ [][NextLoad]_vars

\* Where a name is defined in a spec file, 0 when it is not
DefinedAt(config, name) ==
    IF \E j \in 1..Len(config.tools) : config.tools[j].name = name
    THEN CHOOSE j \in 1..Len(config.tools) : config.tools[j].name = name
    ELSE 0

\* The spec files that define a name
Definers(name) == {c \in 1..Len(paths) : DefinedAt(paths[c], name) > 0}

\* The last definition of a name: the spec file and the place in its tools
LastDefinition(name) ==
    LET c == CHOOSE c \in Definers(name) : \A d \in Definers(name) : d <= c
    IN  [c |-> c, t |-> DefinedAt(paths[c], name)]

\* One definition is read before another
ReadBefore(d, e) == d.c < e.c \/ (d.c = e.c /\ d.t < e.t)

\* The places of a name in the registry and in the index
RegistryPlaces(name) == {j \in 1..Len(loaded) : loaded[j].tool.name = name}

IndexPlaces(name) == {j \in 1..Len(index) : index[j].tool_name = name}

\* The names more than one spec file defines
Redefined == {name \in LoadNames : Cardinality(Definers(name)) > 1}

\* A redefined name is once in the registry and once in the index, with the
\* last definition's tool, base command, env and spec file
CarriesLastDefinition(name) ==
    LET B == paths[LastDefinition(name).c]
    IN  /\ Cardinality(RegistryPlaces(name)) = 1
        /\ Cardinality(IndexPlaces(name)) = 1
        /\ Lookup(loaded, name).tool = B.tools[LastDefinition(name).t]
        /\ Lookup(loaded, name).base_command = B.command
        /\ Lookup(loaded, name).env = B.env
        /\ \A j \in IndexPlaces(name) : index[j].cli_name = B.name

\* A redefined name comes after every name whose last definition was read
\* earlier, in the registry and in the index
AtLastInsertionPoint(name) ==
    \A other \in LoadNames \ {name} :
        (Definers(other) # {}
         /\ ReadBefore(LastDefinition(other), LastDefinition(name)))
        => /\ \A j \in RegistryPlaces(other), k \in RegistryPlaces(name) : j < k
           /\ \A j \in IndexPlaces(other), k \in IndexPlaces(name) : j < k

\* C19: after spec A and then spec B are loaded, both defining a tool x, the
\* registry and the index hold x once, with B's definition (base command, env,
\* arguments), placed where B inserted it: after A's other tools.
CexC19_LastDefinitionAtItsInsertionPoint ==
    pc = "loaded" =>
        \A name \in Redefined :
            CarriesLastDefinition(name) /\ AtLastInsertionPoint(name)

\* The same without the place in the registry (holds)
RedefinedCarriesLast ==
    pc = "loaded" => \A name \in Redefined : CarriesLastDefinition(name)

(***************************************************************************)
(* The configurations the engine is run on.                                *)
(***************************************************************************)
ArgMessage == <<"m", "e", "s", "s", "a", "g", "e">>

ArgShort == <<"s", "h", "o", "r", "t">>

ArgName_ == <<"n", "a", "m", "e">>

ArgCount == <<"c", "o", "u", "n", "t">>

GitTools ==
    CLImaxConfig("git-tools", <<"g", "i", "t">>,
        <<ToolDef("commit", "Record changes", <<"c", "o", "m", "m", "i", "t">>,
                  <<Decl(ArgMessage, "string", TRUE, VNone, <<"-", "m">>, FALSE, FALSE, FALSE)>>, 0),
          ToolDef("status", "Show status", <<"s", "t", "a", "t", "u", "s">>,
                  <<Decl(ArgShort, "boolean", FALSE, VNone, <<"-", "-", "s", "h", "o", "r", "t">>, FALSE, FALSE, FALSE)>>, 0)>>)

EchoTools ==
    CLImaxConfig("echo-tools", <<"e", "c", "h", "o">>,
        <<ToolDef("greet", "Say hello", <<"h", "e", "l", "l", "o">>,
                  <<Decl(ArgName_, "string", FALSE, VNone, NoFlag, TRUE, FALSE, FALSE)>>, 5),
          ToolDef("log", "Show log", <<>>,
                  <<Decl(ArgCount, "integer", FALSE, VInt(10), <<"-", "n">>, FALSE, FALSE, FALSE)>>, 0)>>)

ConfigLists == {<<GitTools, EchoTools>>, <<EchoTools>>}

DockerExecutor ==
    ExecutorConfig("docker", <<"a", "l", "p", "i", "n", "e">>, <<<<"$", "H", "O", "M", "E", ":", "/", "w">>>>, <<>>, <<"n", "o", "n", "e">>)

\* A docker executor with two volumes and a working directory, no network
DockerMounts ==
    ExecutorConfig("docker", <<"a", "l", "p", "i", "n", "e">>,
                   <<<<"/", "a", ":", "/", "a">>, <<"$", "H", "O", "M", "E", ":", "/", "b">>>>,
                   <<"/", "w">>, <<>>)

\* A docker executor whose volumes refer to a variable that is not set and to
\* one that is set to ""
DockerUnset ==
    ExecutorConfig("docker", <<"a", "l", "p", "i", "n", "e">>,
                   <<<<"$", "N", "O", "P", "E", ":", "/", "n">>,
                     <<"$", "{", "E", "M", "P", "T", "Y", "}", ":", "/", "e">>>>,
                   <<>>, <<>>)

\* The executor section of a policy file that asks for docker and names no image
DockerNoImage == ExecutorConfig("docker", <<>>, <<>>, <<>>, <<>>)

\* A docker executor with an image alone
DockerBare == ExecutorConfig("docker", <<"a", "l", "p", "i", "n", "e">>, <<>>, <<>>, <<>>)

\* No --policy, or one of these policy files
Policies ==
    {NoPolicy,
     PolicyConfig(LocalExecutor, "disabled",
        ("greet" :> ToolPolicy("None", <<Item(ArgName_, PatternOnly(LowerWord))>>))
        @@ ("log" :> ToolPolicy("Log", <<Item(ArgCount, Range(1, 5))>>))),
     PolicyConfig(DockerExecutor, "enabled",
        ("commit" :> ToolPolicy("None", <<Item(ArgMessage, PatternOnly(LowerWord))>>))
        @@ ("ghost" :> ToolPolicy("None", <<>>))),
     PolicyConfig(DockerMounts, "enabled", <<>>),
     PolicyConfig(DockerUnset, "enabled", <<>>),
     PolicyConfig(DockerNoImage, "enabled", <<>>),
     PolicyConfig(DockerBare, "enabled",
        ("log" :> ToolPolicy("None", <<Item(ArgCount, Range(1, 5))>>))),
     PolicyConfig(LocalExecutor, "disabled", <<>>)}

\* The names a caller may ask for
RequestNames == {"commit", "status", "greet", "log", "nope"}

\* The values a caller may send for an argument
RequestValues(arg_def) ==
    CASE arg_def.type = "boolean" -> {VBool(TRUE), VBool(FALSE), VStr(<<"y", "e", "s">>)}
      [] arg_def.type = "integer" -> {VInt(3), VInt(9), VStr(<<"9">>), VStr(<<"x">>), VBig}
      [] OTHER -> {VStr(<<"o", "k">>), VStr(<<"N", "o", "1">>), VInt(7)}

\* The argument maps a caller may send to a tool with one declared argument:
\* none, an empty one, or one value for the argument
RequestArguments(name) ==
    LET defs == UNION {{c.tools[j] : j \in 1..Len(c.tools)} : c \in {GitTools, EchoTools}}
        found == {d \in defs : d.name = name}
    IN  {[given |-> FALSE, map |-> <<>>], [given |-> TRUE, map |-> <<>>]}
        \cup UNION {{[given |-> TRUE, map |-> (d.args[1].name :> v)] :
                        v \in RequestValues(d.args[1])} : d \in found}

\* What the child can leave behind: exit status, stdout, stderr
ExitCodes == {0, 1}

Outputs == {<<>>, <<"o", "u", "t">> \o <<"\n">>, <<" ", "\n">>}

ErrorOutputs == {<<>>, <<"e", "r", "r">>, <<"e", "r", "r">> \o <<"\n">>, <<" ">>}

(***************************************************************************)
(* The server: cmd_run, create_server, call_tool and run_command.          *)
(***************************************************************************)
NoRequest == [name |-> "", arguments |-> <<>>, given |-> FALSE, via |-> "none"]

\* arguments = arguments or {}
ArgumentsOrEmpty(given, map) == IF given THEN map ELSE <<>>

\* A variant in which the policy check lets every argument map through
PolicyRejects_never(resolved, arguments) == FALSE

\* if resolved.arg_constraints: errors = validate_arguments(...); if errors:
PolicyRejects(resolved, arguments) ==
    /\ resolved.arg_constraints # <<>>
    /\ validate_arguments(arguments, resolved.tool, resolved.arg_constraints) # <<>>

\* if executor and executor.type == ExecutorType.docker
SandboxPrefix(policy_config) ==
    IF policy_config.present /\ policy_config.executor.type = "docker"
    THEN build_docker_prefix(policy_config.executor) ELSE <<>>

\* description = resolved.description_override or td.description
Description(resolved) ==
    IF resolved.description_override \notin {"None", ""}
    THEN resolved.description_override ELSE resolved.tool.description

Init ==
    /\ loaded = <<>>
    /\ policy = NoPolicy
    /\ tool_map = <<>>
    /\ classic = TRUE
    /\ index = <<>>
    /\ paths = <<>>
    /\ pc = "startup"
    /\ req = NoRequest
    /\ cmd = <<>>
    /\ chld = "none"
    /\ spawns = 0
    /\ result = NoResult
    /\ response = NoResponse
    /\ trace = <<>>
    /\ decls = <<>>

\* cmd_run: load the configs, apply the policy when there is one, create the
\* server
Startup ==
    /\ pc = "startup"
    /\ \E configs \in ConfigLists, policy_config \in Policies, mode \in BOOLEAN :
        /\ loaded' = load_configs(configs)
        /\ paths' = configs
        /\ classic' = mode
        /\ IF policy_config.present /\ model_post_init_raises(policy_config.executor)
           THEN /\ response' = Raised("ValueError")
                /\ pc' = "exited"
                /\ UNCHANGED <<policy, tool_map, index>>
           ELSE /\ policy' = policy_config
                /\ tool_map' = IF policy_config.present
                               THEN apply_policy(load_configs(configs), policy_config)
                               ELSE load_configs(configs)
                /\ index' = from_configs(configs)
                /\ pc' = "idle"
                /\ UNCHANGED response
    /\ UNCHANGED <<req, cmd, chld, spawns, result, trace, decls>>

\* list_tools: one entry per entry of tool_map
ListTools ==
    /\ pc = "idle"
    /\ classic
    /\ req' = [NoRequest EXCEPT !.via = "list_tools"]
    /\ response' = [kind |-> "tools", names |-> Names(tool_map),
                    descriptions |-> [j \in 1..Len(tool_map) |-> Description(tool_map[j])]]
    /\ pc' = "done"
    /\ UNCHANGED <<loaded, policy, tool_map, classic, cmd, chld, spawns, result,
                   trace, decls, index, paths>>

\* call_tool, from the lookup to the call of run_command
CallTool ==
    /\ pc = "idle"
    /\ classic
    /\ \E name \in RequestNames : \E a \in RequestArguments(name) :
        /\ req' = [name |-> name, arguments |-> a.map, given |-> a.given,
                   via |-> "call_tool"]
        /\ IF name \notin NameSet(tool_map)
           THEN /\ response' = UnknownTool(name)
                /\ pc' = "done"
                /\ UNCHANGED <<cmd, trace>>
           ELSE LET resolved == Lookup(tool_map, name)
                    arguments == ArgumentsOrEmpty(a.given, a.map)
                    checked == IF resolved.arg_constraints # <<>>
                               THEN <<"policy">> ELSE <<>>
                IN  IF ValidateRaises(arguments, resolved.arg_constraints)
                    THEN /\ response' = Raised("OverflowError")
                         /\ pc' = "raised"
                         /\ trace' = checked
                         /\ UNCHANGED cmd
                    ELSE IF PolicyRejects(resolved, arguments)
                    THEN /\ response' = PolicyFailed(validate_arguments(
                                arguments, resolved.tool, resolved.arg_constraints))
                         /\ pc' = "done"
                         /\ trace' = checked
                         /\ UNCHANGED cmd
                    ELSE /\ cmd' = SandboxPrefix(policy)
                                   \o build_command(resolved.base_command,
                                                    resolved.tool, arguments)
                         /\ pc' = "spawn"
                         /\ trace' = checked \o <<"build">>
                         /\ UNCHANGED response
    /\ UNCHANGED <<loaded, policy, tool_map, classic, chld, spawns, result,
                   decls, index, paths>>

\* run_command: create_subprocess_exec starts the child or raises; the
\* FileNotFoundError handler returns, and call_tool formats what it returned
Spawn ==
    /\ pc = "spawn"
    /\ spawns' = spawns + 1
    /\ \E outcome \in SpawnOutcomes :
        IF outcome = "started"
        THEN /\ chld' = "running"
             /\ pc' = "waiting"
             /\ trace' = Append(trace, "execute")
             /\ UNCHANGED <<result, response>>
        ELSE IF CaughtBySpawnHandler(outcome)
        THEN /\ result' = NotFoundResult(cmd)
             /\ response' = FormatResult(NotFoundResult(cmd))
             /\ pc' = "done"
             /\ trace' = trace \o <<"execute", "format">>
             /\ UNCHANGED chld
        ELSE /\ response' = Raised(outcome)
             /\ pc' = "raised"
             /\ trace' = Append(trace, "execute")
             /\ UNCHANGED <<result, chld>>
    /\ UNCHANGED <<loaded, policy, tool_map, classic, req, cmd, decls, index, paths>>

\* The child exits of its own accord
ChildExits ==
    /\ pc \in {"waiting", "timeout"}
    /\ chld = "running"
    /\ chld' = "exited"
    /\ UNCHANGED <<loaded, policy, tool_map, classic, pc, req, cmd, spawns,
                   result, response, trace, decls, index, paths>>

\* The event loop learns of the exit and closes the transport of the child
TransportCloses ==
    /\ pc \in {"waiting", "timeout"}
    /\ chld = "exited"
    /\ chld' = "closed"
    /\ UNCHANGED <<loaded, policy, tool_map, classic, pc, req, cmd, spawns,
                   result, response, trace, decls, index, paths>>

\* proc.communicate() returns: run_command returns (proc.returncode or 0,
\* stdout, stderr) and call_tool formats it. After the timer has fired this
\* is wait_for finding the awaited call done all the same.
CommunicateReturns ==
    /\ pc \in {"waiting", "timeout"}
    /\ chld = "closed"
    /\ \E returncode \in ExitCodes, stdout \in Outputs, stderr \in ErrorOutputs :
        /\ result' = Result(returncode, stdout, stderr)
        /\ response' = FormatResult(Result(returncode, stdout, stderr))
    /\ pc' = "done"
    /\ trace' = Append(trace, "format")
    /\ UNCHANGED <<loaded, policy, tool_map, classic, req, cmd, chld, spawns,
                   decls, index, paths>>

\* wait_for: the timeout passes before communicate() has returned, and the
\* awaited call is cancelled
TimerFires ==
    /\ pc = "waiting"
    /\ pc' = "timeout"
    /\ trace' = Append(trace, IF chld = "running" THEN "expired" ELSE "expired_late")
    /\ UNCHANGED <<loaded, policy, tool_map, classic, req, cmd, chld, spawns,
                   result, response, decls, index, paths>>

\* except asyncio.TimeoutError: proc.kill() and the timeout result; kill()
\* raises ProcessLookupError once the transport is closed
KillChild ==
    /\ pc = "timeout"
    /\ IF chld = "closed"
       THEN /\ response' = Raised("ProcessLookupError")
            /\ pc' = "raised"
            /\ UNCHANGED <<chld, result, trace>>
       ELSE LET resolved == Lookup(tool_map, req.name)
            IN  /\ chld' = IF chld = "running" THEN "killed" ELSE chld
                /\ result' = TimeoutResult(ToolTimeout(resolved.tool))
                /\ response' = FormatResult(TimeoutResult(ToolTimeout(resolved.tool)))
                /\ pc' = "done"
                /\ trace' = Append(trace, "format")
    /\ UNCHANGED <<loaded, policy, tool_map, classic, req, cmd, spawns, decls, index, paths>>

\* The server takes the next request
NextRequest ==
    /\ pc \in {"done", "raised"}
    /\ pc' = "idle"
    /\ req' = NoRequest
    /\ cmd' = <<>>
    /\ chld' = "none"
    /\ spawns' = 0
    /\ result' = NoResult
    /\ response' = NoResponse
    /\ trace' = <<>>
    /\ UNCHANGED <<loaded, policy, tool_map, classic, decls, index, paths>>

(***************************************************************************)
(* Progressive discovery (specification, sections 4.5 and 6): the server   *)
(* lists two meta-capabilities, and tools are found and invoked by name    *)
(* through them.                                                           *)
(***************************************************************************)
ListToolsDiscovery ==
    /\ pc = "idle"
    /\ ~classic
    /\ req' = [NoRequest EXCEPT !.via = "list_tools"]
    /\ response' = [kind |-> "tools", names |-> MetaTools,
                    descriptions |-> [j \in 1..Len(MetaTools) |-> "meta"]]
    /\ pc' = "done"
    /\ UNCHANGED <<loaded, policy, tool_map, classic, cmd, chld, spawns, result,
                   trace, decls, index, paths>>

\* climax_search with a cli filter
ClimaxSearch ==
    /\ pc = "idle"
    /\ ~classic
    /\ \E cli \in {"git-tools", "echo-tools"} :
        /\ req' = [NoRequest EXCEPT !.via = "climax_search", !.name = cli]
        /\ response' =
            LET found == SearchResults(index, tool_map, cli)
            IN  [kind |-> "search",
                 names |-> [j \in 1..Len(found) |-> found[j].tool_name]]
    /\ pc' = "done"
    /\ UNCHANGED <<loaded, policy, tool_map, classic, cmd, chld, spawns, result,
                   trace, decls, index, paths>>

\* climax_call: lookup, validate and coerce, policy check, command build
ClimaxCall ==
    /\ pc = "idle"
    /\ ~classic
    /\ \E name \in RequestNames : \E a \in RequestArguments(name) :
        /\ req' = [name |-> name, arguments |-> a.map, given |-> a.given,
                   via |-> "climax_call"]
        /\ IF name \notin NameSet(tool_map)
           THEN /\ response' = UnknownToolListing(name, tool_map)
                /\ pc' = "done"
                /\ UNCHANGED <<cmd, trace>>
           ELSE LET resolved == Lookup(tool_map, name)
                    raw == ArgumentsOrEmpty(a.given, a.map)
                    errors == validate_tool_args(raw, resolved.tool)
                    arguments == Coerced(raw, resolved.tool)
                    checked == IF resolved.arg_constraints # <<>>
                               THEN <<"validate", "policy">> ELSE <<"validate">>
                IN  IF errors # <<>>
                    THEN /\ response' = ArgumentFailed(errors)
                         /\ pc' = "done"
                         /\ trace' = <<"validate">>
                         /\ UNCHANGED cmd
                    ELSE IF ValidateRaises(arguments, resolved.arg_constraints)
                    THEN /\ response' = Raised("OverflowError")
                         /\ pc' = "raised"
                         /\ trace' = checked
                         /\ UNCHANGED cmd
                    ELSE IF PolicyRejects(resolved, arguments)
                    THEN /\ response' = PolicyFailed(validate_arguments(
                                arguments, resolved.tool, resolved.arg_constraints))
                         /\ pc' = "done"
                         /\ trace' = checked
                         /\ UNCHANGED cmd
                    ELSE /\ cmd' = SandboxPrefix(policy)
                                   \o build_command(resolved.base_command,
                                                    resolved.tool, arguments)
                         /\ pc' = "spawn"
                         /\ trace' = checked \o <<"build">>
                         /\ UNCHANGED response
    /\ UNCHANGED <<loaded, policy, tool_map, classic, chld, spawns, result,
                   decls, index, paths>>

Next ==
    \/ Startup
    \/ ListTools
    \/ CallTool
    \/ Spawn
    \/ ChildExits
    \/ TransportCloses
    \/ CommunicateReturns
    \/ TimerFires
    \/ KillChild
    \/ NextRequest
    \/ ListToolsDiscovery
    \/ ClimaxSearch
    \/ ClimaxCall

Spec == Init /\ [][Next]_vars

TypeOK ==
    /\ pc \in {"startup", "idle", "spawn", "waiting", "timeout", "done", "raised",
              "exited"}
    /\ chld \in {"none", "running", "exited", "closed", "killed"}
    /\ spawns \in 0..1
    /\ classic \in BOOLEAN

(***************************************************************************)
(* Properties of the server (Spec).                                        *)
(***************************************************************************)
\* The request in flight asks for a tool by name
Invokes == req.via \in {"call_tool", "climax_call"}

\* The request in flight names a tool of the registry the server was given
InvokesKnown == Invokes /\ req.name \in NameSet(tool_map)

\* The request has come to its end: a response, or an exception
Ended == pc \in {"done", "raised"}

\* The argument map of the request as call_tool reads it
Sent == ArgumentsOrEmpty(req.given, req.arguments)

\* C1: in call_tool, when the tool has policy constraints and
\* validate_arguments reports an error for the argument map, the response is
\* "Policy validation failed:" with one bullet per error, and run_command is
\* not called for the request.
ThmC1_PolicyRejectionNeverRuns ==
    (req.via = "call_tool" /\ req.name \in NameSet(tool_map))
    => LET resolved == Lookup(tool_map, req.name)
           errors == validate_arguments(Sent, resolved.tool, resolved.arg_constraints)
       IN  (resolved.arg_constraints # <<>> /\ errors # <<>>)
           => /\ pc = "done"
              /\ response.kind = "policy_failed"
              /\ response.bullets = errors
              /\ Len(response.bullets) = Len(errors)
              /\ spawns = 0
              /\ chld = "none"

\* A constrained tool was called with a value its constraint refuses
WitC1_PolicyRejected ==
    /\ req.via = "call_tool"
    /\ pc = "done"
    /\ req.name \in NameSet(tool_map)
    /\ Lookup(tool_map, req.name).arg_constraints # <<>>
    /\ req.arguments # <<>>
    /\ response.kind = "policy_failed"
    /\ Len(response.bullets) >= 1

\* The tools that the policy drops: default disabled, and no entry for them
Dropped ==
    IF policy.present /\ policy.default = "disabled"
    THEN {n \in NameSet(loaded) : n \notin DOMAIN policy.tools}
    ELSE {}

SeqRange(q) == {q[j] : j \in 1..Len(q)}

Stages == <<"validate", "policy", "build", "execute", "format">>

StageRank(stage) == CHOOSE j \in 1..Len(Stages) : Stages[j] = stage

\* The stages the request went through, without the timer's entries
StagesOf(tr) == SelectSeq(tr, LAMBDA e : e \in SeqRange(Stages))

\* C4: a call of a known tool goes through validate/coerce, policy check,
\* command build, execute and format in this order; when argument validation
\* reports an error, the response is "Argument validation failed:" with one
\* bullet per error, and neither the policy check nor the subprocess runs.
CexC4_ValidationComesFirst ==
    InvokesKnown
    => LET resolved == Lookup(tool_map, req.name)
           errors == validate_tool_args(Sent, resolved.tool)
           stages == StagesOf(trace)
       IN  /\ \A a, b \in 1..Len(stages) :
                a < b => StageRank(stages[a]) < StageRank(stages[b])
           /\ stages # <<>> => stages[1] = "validate"
           /\ errors # <<>>
              => /\ pc = "done"
                 /\ response = ArgumentFailed(errors)
                 /\ "policy" \notin SeqRange(stages)
                 /\ spawns = 0

\* C5: every request ends in a text response (unknown tool, argument or
\* policy validation failure, or the formatted result of run_command); no
\* exception leaves call_tool.
CexC5_NoExceptionLeavesCallTool ==
    /\ pc # "raised"
    /\ (Invokes /\ pc = "done")
       => response.kind \in {"unknown_tool", "argument_failed", "policy_failed", "result"}

\* C6: when the child has not exited by the time the timeout passes,
\* run_command returns (-1, "", "Command timed out after ...") and the child
\* is no longer running when it returns.
CexC6_TimeoutKillsAndReturns ==
    (Ended /\ "expired" \in SeqRange(trace))
    => /\ pc = "done"
       /\ result = TimeoutResult(ToolTimeout(Lookup(tool_map, req.name).tool))
       /\ chld # "running"

\* C7: when the executable cannot be found or started, run_command returns
\* (-1, "", "Command not found: ...") as a result: it does not raise, and it
\* calls create_subprocess_exec once.
CexC7_SpawnFailureIsAResult ==
    (Ended /\ spawns >= 1 /\ chld = "none")
    => /\ pc = "done"
       /\ result = NotFoundResult(cmd)
       /\ spawns = 1

\* The timeout of the request in flight has passed, the child running or not
TimerFired == \E j \in 1..Len(trace) : trace[j] \in {"expired", "expired_late"}

\* The results a child can end with on its own
RealResults ==
    {Result(returncode, stdout, stderr) :
        returncode \in ExitCodes, stdout \in Outputs, stderr \in ErrorOutputs}

\* C28: however the expiry of the timeout and the exit of the child are
\* ordered, the child exiting between the expiry and the kill included,
\* run_command returns a triple, the result of the child or the -1 timeout
\* result, and raises nothing.
CexC28_TimeoutRaceReturnsTriple ==
    (Ended /\ TimerFired)
    => /\ response.kind # "exception"
       /\ result \in RealResults
                     \cup {TimeoutResult(ToolTimeout(Lookup(tool_map, req.name).tool))}
       /\ response = FormatResult(result)

\* The same when the transport of the child is still open at the kill (holds)
OpenTransportReturnsTriple ==
    (Ended /\ TimerFired /\ chld # "closed")
    => /\ response.kind # "exception"
       /\ result \in RealResults
                     \cup {TimeoutResult(ToolTimeout(Lookup(tool_map, req.name).tool))}
       /\ response = FormatResult(result)

\* The request came as far as a command: build_command was called
CommandBuilt == InvokesKnown /\ "build" \in SeqRange(trace)

\* What build_command returned for the request in flight
BuilderTokens ==
    LET resolved == Lookup(tool_map, req.name)
    IN  build_command(resolved.base_command, resolved.tool,
                      IF req.via = "climax_call"
                      THEN Coerced(Sent, resolved.tool) ELSE Sent)

Sandboxed == policy.present /\ policy.executor.type = "docker"

\* How many tokens the options of the executor take, up to the network pair
\* and up to the working directory pair
AfterVolumes == 3 + 2 * Len(policy.executor.volumes)

AfterNetwork == AfterVolumes + (IF policy.executor.network # <<>> THEN 2 ELSE 0)

AfterWorkingDir == AfterNetwork + (IF policy.executor.working_dir # <<>> THEN 2 ELSE 0)

\* C20: with a docker executor the vector run_command is given is docker,
\* run, --rm, one -v pair per volume in the configured order, a --network
\* pair when a network is set, a -w pair when a working directory is set, the
\* image, and then build_command's tokens as they are; with a local executor
\* or without a policy the vector is build_command's tokens alone.
ThmC20_PrefixThenBuilderTokens ==
    CommandBuilt =>
        IF ~Sandboxed THEN cmd = BuilderTokens
        ELSE /\ Len(cmd) = AfterWorkingDir + 1 + Len(BuilderTokens)
             /\ SubSeq(cmd, 1, 3) =
                    <<<<"d", "o", "c", "k", "e", "r">>, <<"r", "u", "n">>,
                      <<"-", "-", "r", "m">>>>
             /\ \A j \in 1..Len(policy.executor.volumes) :
                    /\ cmd[2 + 2 * j] = <<"-", "v">>
                    /\ cmd[3 + 2 * j] = ExpandVars(policy.executor.volumes[j])
             /\ policy.executor.network # <<>> =>
                    SubSeq(cmd, AfterVolumes + 1, AfterVolumes + 2) =
                        <<<<"-", "-", "n", "e", "t", "w", "o", "r", "k">>,
                          policy.executor.network>>
             /\ policy.executor.working_dir # <<>> =>
                    SubSeq(cmd, AfterNetwork + 1, AfterNetwork + 2) =
                        <<<<"-", "w">>, policy.executor.working_dir>>
             /\ cmd[AfterWorkingDir + 1] = policy.executor.image
             /\ SubSeq(cmd, AfterWorkingDir + 2, Len(cmd)) = BuilderTokens

\* A command was built under an executor with two volumes and a working
\* directory, and the child was started with it
WitC20_TwoVolumesAndWorkingDir ==
    /\ CommandBuilt
    /\ Sandboxed
    /\ Len(policy.executor.volumes) = 2
    /\ policy.executor.working_dir # <<>>
    /\ Len(BuilderTokens) > 1
    /\ spawns = 1

\* C21: a reference to an environment variable in a volume string is
\* replaced from os.environ when the prefix is built, and a reference to a
\* variable that is not set, or is set to "", leaves nothing in the token.
CexC21_UnsetReferenceOmitted ==
    (CommandBuilt /\ Sandboxed) =>
        \A j \in 1..Len(policy.executor.volumes) :
            cmd[3 + 2 * j] = ExpandFrom_omitting(policy.executor.volumes[j], 1, Environ)

\* The same for the references to variables that are set, "" included (holds)
SetReferenceExpanded ==
    (CommandBuilt /\ Sandboxed) =>
        \A j \in 1..Len(policy.executor.volumes) :
            "N" \notin Chars(policy.executor.volumes[j])
            => cmd[3 + 2 * j] = ExpandFrom_omitting(policy.executor.volumes[j], 1, Environ)

\* The policy file's executor section was refused when the policy was loaded
RefusedAtLoad == pc = "exited" /\ response = Raised("ValueError")

\* C22: a docker executor without an image is refused when the policy is
\* constructed, so whenever call_tool builds a docker prefix the executor has
\* an image and the prefix ends with it; no request meets a missing image.
ThmC22_ImagePresentWhenPrefixBuilt ==
    /\ Sandboxed => policy.executor.image # <<>>
    /\ (CommandBuilt /\ Sandboxed) => cmd[AfterWorkingDir + 1] = policy.executor.image
    /\ RefusedAtLoad => (~Invokes /\ cmd = <<>> /\ spawns = 0)
    /\ Invokes => response # Raised("ValueError")

\* The policy file asked for docker without an image and the server did not start
WitC22_ImagelessExecutorRefused == RefusedAtLoad /\ loaded # <<>>

\* run_command returned a result for the request and call_tool formatted it
Formatted == pc = "done" /\ "format" \in SeqRange(trace)

StderrLabel == <<"[", "s", "t", "d", "e", "r", "r", "]">> \o <<"\n">>

ExitCodeLine ==
    <<"[", "e", "x", "i", "t", " ", "c", "o", "d", "e", ":", " ">>
    \o IntToStr(result.returncode) \o <<"]">>

NoOutputText == <<"(", "n", "o", " ", "o", "u", "t", "p", "u", "t", ")">>

\* The non-empty ones of three texts, joined by blank lines
Present(out, err, code) == Join(SelectSeq(<<out, err, code>>, LAMBDA t : t # <<>>), 1)

\* C23 as stated: the response is the non-empty parts among trimmed stdout,
\* "[stderr]" followed by stderr, and "[exit code: N]" for a non-zero exit
\* code, in that order, joined by blank lines; it is "(no output)" exactly
\* when stdout and stderr are empty and the exit code is zero.
CexC23_StderrAsReturned ==
    Formatted =>
        /\ response.kind = "result"
        /\ (response.text = NoOutputText) <=>
                (result.stdout = <<>> /\ result.stderr = <<>> /\ result.returncode = 0)
        /\ response.text # NoOutputText =>
                response.text =
                    Present(Strip(result.stdout),
                            IF result.stderr # <<>>
                            THEN StderrLabel \o result.stderr ELSE <<>>,
                            IF result.returncode # 0 THEN ExitCodeLine ELSE <<>>)

\* C23, amended: for every result of run_command the response is the
\* non-empty parts among trimmed stdout, "[stderr]" followed by trimmed
\* stderr, and "[exit code: N]" for a non-zero exit code, in that order,
\* joined by blank lines; it is "(no output)" exactly when stdout and stderr
\* are empty after trimming and the exit code is zero. A non-zero exit code
\* gives a response of this form, never an exception.
ThmC23_TrimmedPartsInOrder ==
    Formatted =>
        /\ response.kind = "result"
        /\ (response.text = NoOutputText) <=>
                (Strip(result.stdout) = <<>> /\ Strip(result.stderr) = <<>>
                 /\ result.returncode = 0)
        /\ response.text # NoOutputText =>
                response.text =
                    Present(Strip(result.stdout),
                            IF Strip(result.stderr) # <<>>
                            THEN StderrLabel \o Strip(result.stderr) ELSE <<>>,
                            IF result.returncode # 0 THEN ExitCodeLine ELSE <<>>)

\* The child wrote to both streams and exited with a non-zero code
WitC23_AllThreeParts ==
    /\ Formatted
    /\ Strip(result.stdout) # <<>>
    /\ Strip(result.stderr) # result.stderr
    /\ Strip(result.stderr) # <<>>
    /\ result.returncode = 1

\* The argument map build_command was given for the request in flight
BuilderArguments ==
    IF req.via = "climax_call"
    THEN Coerced(Sent, Lookup(tool_map, req.name).tool) ELSE Sent

\* The value of an argument that build_command renders as a token: a
\* positional one when it is in the map, a flag one when the map or the
\* default gives it; a boolean renders no value
RenderedValues(arg_def) ==
    IF arg_def.positional
    THEN (IF arg_def.name \in DOMAIN BuilderArguments
          THEN {BuilderArguments[arg_def.name]} ELSE {})
    ELSE IF arg_def.type = "boolean" THEN {}
    ELSE {ResolveValue(arg_def, BuilderArguments)} \ {VNone}

\* The rendered text of a value keeps to a constraint
KeepsTo(value, constraint) ==
    /\ constraint.has_pattern => FullMatch(constraint.pattern, Str(value))
    /\ constraint.has_min =>
        (IsNumeral(Str(value)) /\ Float(VStr(Str(value))) >= constraint.min)
    /\ constraint.has_max =>
        (IsNumeral(Str(value)) /\ Float(VStr(Str(value))) <= constraint.max)

\* C27: when a request reaches run_command, every argument the policy
\* constrains and build_command renders keeps to its pattern, minimum and
\* maximum, be the value the caller's or the default, a string or not.
CexC27_RenderedValuesKeepToConstraints ==
    (CommandBuilt /\ spawns >= 1) =>
        LET resolved == Lookup(tool_map, req.name) IN
        \A k \in 1..Len(resolved.arg_constraints) :
            \A j \in 1..Len(resolved.tool.args) :
                resolved.tool.args[j].name = resolved.arg_constraints[k].name =>
                    \A value \in RenderedValues(resolved.tool.args[j]) :
                        KeepsTo(value, resolved.arg_constraints[k].constraint)

\* The same for the strings the caller sends for a pattern and the numbers
\* and numerals the caller sends for a range (holds)
SuppliedValuesKeepToConstraints ==
    (CommandBuilt /\ spawns >= 1) =>
        LET resolved == Lookup(tool_map, req.name) IN
        \A k \in 1..Len(resolved.arg_constraints) :
            LET name == resolved.arg_constraints[k].name
                constraint == resolved.arg_constraints[k].constraint
            IN  (/\ name \in DOMAIN BuilderArguments
                 /\ IF constraint.has_pattern
                    THEN BuilderArguments[name].k = "str"
                    ELSE CanFloat(BuilderArguments[name]))
                => KeepsTo(BuilderArguments[name], constraint)

(***************************************************************************)
(* SpecConcurrent: several call_tool coroutines in flight on one server.   *)
(* req[i] is the request message of invocation i and response[i] the reply *)
(* sent for it; chld[i] is its child process; cmd and result are locals of *)
(* its coroutine frame. A coroutine runs alone between two awaits.         *)
(***************************************************************************)
InFlight == 1..MaxInFlight

\* A variant in which the locals of every invocation live in one place
Frame_shared(i) == 1

\* Each call of call_tool and of run_command has a frame of its own for its
\* locals (resolved, arguments, cmd, proc, stdout, stderr)
Frame(i) == i

\* The requests the callers send
ConcurrentRequests ==
    {[name |-> "commit", given |-> TRUE, arguments |-> (ArgMessage :> VStr(<<"o", "k">>))],
     [name |-> "commit", given |-> TRUE, arguments |-> (ArgMessage :> VStr(<<"N", "o", "1">>))],
     [name |-> "log", given |-> FALSE, arguments |-> <<>>],
     [name |-> "greet", given |-> TRUE, arguments |-> (ArgName_ :> VStr(<<"o", "k">>))],
     [name |-> "nope", given |-> TRUE, arguments |-> <<>>]}

\* No policy, or the policy with the docker executor and a pattern for commit
ConcurrentPolicies ==
    {p \in Policies : p.present => (p.executor = DockerExecutor)}

\* What the child of an invocation does: exits with a result, outlives the
\* timeout and is killed, or exits just before the kill
ChildEndings ==
    {[state |-> "exited", returncode |-> rc, stdout |-> out, stderr |-> <<>>] :
        rc \in ExitCodes, out \in {<<>>, <<"o", "u", "t">>}}
    \cup {[state |-> "killed", returncode |-> 0 - 9, stdout |-> <<>>, stderr |-> <<>>],
          [state |-> "closed", returncode |-> 0, stdout |-> <<>>, stderr |-> <<>>]}

NoChild == [state |-> "none", returncode |-> 0, stdout |-> <<>>, stderr |-> <<>>]

InitConcurrent ==
    /\ paths = <<GitTools, EchoTools>>
    /\ loaded = load_configs(<<GitTools, EchoTools>>)
    /\ \E policy_config \in ConcurrentPolicies :
        /\ policy = policy_config
        /\ tool_map = IF policy_config.present
                      THEN apply_policy(load_configs(<<GitTools, EchoTools>>), policy_config)
                      ELSE load_configs(<<GitTools, EchoTools>>)
    /\ index = from_configs(<<GitTools, EchoTools>>)
    /\ classic = TRUE
    /\ decls = <<>>
    /\ pc = [i \in InFlight |-> "idle"]
    /\ req = [i \in InFlight |-> NoRequest]
    /\ cmd = [i \in InFlight |-> <<>>]
    /\ chld = [i \in InFlight |-> NoChild]
    /\ spawns = [i \in InFlight |-> 0]
    /\ result = [i \in InFlight |-> NoResult]
    /\ response = [i \in InFlight |-> NoResponse]
    /\ trace = [i \in InFlight |-> <<>>]

\* call_tool from its entry to its first await, create_subprocess_exec
ReceiveCall(i) ==
    /\ pc[i] = "idle"
    /\ \E request \in ConcurrentRequests :
        /\ req' = [req EXCEPT ![i] = [name |-> request.name,
                                       arguments |-> request.arguments,
                                       given |-> request.given, via |-> "call_tool"]]
        /\ IF request.name \notin NameSet(tool_map)
           THEN /\ response' = [response EXCEPT ![i] = UnknownTool(request.name)]
                /\ pc' = [pc EXCEPT ![i] = "done"]
                /\ UNCHANGED <<cmd, trace>>
           ELSE LET resolved == Lookup(tool_map, request.name)
                    arguments == ArgumentsOrEmpty(request.given, request.arguments)
                IN  IF ValidateRaises(arguments, resolved.arg_constraints)
                    THEN /\ response' = [response EXCEPT ![i] = Raised("OverflowError")]
                         /\ pc' = [pc EXCEPT ![i] = "raised"]
                         /\ UNCHANGED <<cmd, trace>>
                    ELSE IF PolicyRejects(resolved, arguments)
                    THEN /\ response' = [response EXCEPT ![i] =
                                PolicyFailed(validate_arguments(
                                    arguments, resolved.tool, resolved.arg_constraints))]
                         /\ pc' = [pc EXCEPT ![i] = "done"]
                         /\ UNCHANGED <<cmd, trace>>
                    ELSE /\ cmd' = [cmd EXCEPT ![Frame(i)] =
                                SandboxPrefix(policy)
                                \o build_command(resolved.base_command,
                                                 resolved.tool, arguments)]
                         /\ pc' = [pc EXCEPT ![i] = "spawn"]
                         /\ trace' = [trace EXCEPT ![i] = <<"build">>]
                         /\ UNCHANGED response
    /\ UNCHANGED <<loaded, policy, tool_map, classic, chld, spawns, result,
                   decls, index, paths>>

\* run_command up to its second await: create_subprocess_exec starts the
\* child of cmd, or raises
StartChild(i) ==
    /\ pc[i] = "spawn"
    /\ spawns' = [spawns EXCEPT ![i] = @ + 1]
    /\ \E outcome \in SpawnOutcomes :
        IF outcome = "started"
        THEN /\ chld' = [chld EXCEPT ![i] = [NoChild EXCEPT !.state = "running"]]
             /\ pc' = [pc EXCEPT ![i] = "waiting"]
             /\ UNCHANGED <<result, response>>
        ELSE IF CaughtBySpawnHandler(outcome)
        THEN /\ result' = [result EXCEPT ![Frame(i)] = NotFoundResult(cmd[Frame(i)])]
             /\ response' = [response EXCEPT ![i] =
                                FormatResult(NotFoundResult(cmd[Frame(i)]))]
             /\ pc' = [pc EXCEPT ![i] = "done"]
             /\ UNCHANGED chld
        ELSE /\ response' = [response EXCEPT ![i] = Raised(outcome)]
             /\ pc' = [pc EXCEPT ![i] = "raised"]
             /\ UNCHANGED <<result, chld>>
    /\ UNCHANGED <<loaded, policy, tool_map, classic, req, cmd, trace, decls,
                   index, paths>>

\* run_command from wait_for on: communicate() returns the child's result,
\* or the timeout passes and the child is killed, or has just gone
AwaitChild(i) ==
    /\ pc[i] = "waiting"
    /\ \E ending \in ChildEndings :
        /\ chld' = [chld EXCEPT ![i] = ending]
        /\ IF ending.state = "closed"
           THEN /\ response' = [response EXCEPT ![i] = Raised("ProcessLookupError")]
                /\ pc' = [pc EXCEPT ![i] = "raised"]
                /\ UNCHANGED result
           ELSE LET returned ==
                        IF ending.state = "exited"
                        THEN Result(ending.returncode, ending.stdout, ending.stderr)
                        ELSE TimeoutResult(ToolTimeout(Lookup(tool_map, req[i].name).tool))
                IN  /\ result' = [result EXCEPT ![Frame(i)] = returned]
                    /\ response' = [response EXCEPT ![i] = FormatResult(result'[Frame(i)])]
                    /\ pc' = [pc EXCEPT ![i] = "done"]
    /\ UNCHANGED <<loaded, policy, tool_map, classic, req, cmd, spawns, trace,
                   decls, index, paths>>

\* The reply is sent and the coroutine ends; the caller may send another
SendReply(i) ==
    /\ pc[i] \in {"done", "raised"}
    /\ pc' = [pc EXCEPT ![i] = "idle"]
    /\ req' = [req EXCEPT ![i] = NoRequest]
    /\ cmd' = [cmd EXCEPT ![Frame(i)] = <<>>]
    /\ chld' = [chld EXCEPT ![i] = NoChild]
    /\ spawns' = [spawns EXCEPT ![i] = 0]
    /\ result' = [result EXCEPT ![Frame(i)] = NoResult]
    /\ response' = [response EXCEPT ![i] = NoResponse]
    /\ trace' = [trace EXCEPT ![i] = <<>>]
    /\ UNCHANGED <<loaded, policy, tool_map, classic, decls, index, paths>>

NextConcurrent ==
    \E i \in InFlight :
        ReceiveCall(i) \/ StartChild(i) \/ AwaitChild(i) \/ SendReply(i)

SpecConcurrent == InitConcurrent /\ [][NextConcurrent]_vars

\* The command of invocation i, from its own request alone
OwnCommand(i) ==
    LET resolved == Lookup(tool_map, req[i].name)
    IN  SandboxPrefix(policy)
        \o build_command(resolved.base_command, resolved.tool,
                         ArgumentsOrEmpty(req[i].given, req[i].arguments))

\* The reply to invocation i, from its own request and its own child alone
OwnResponse(i) ==
    IF req[i].name \notin NameSet(tool_map) THEN UnknownTool(req[i].name)
    ELSE LET resolved == Lookup(tool_map, req[i].name)
             arguments == ArgumentsOrEmpty(req[i].given, req[i].arguments)
         IN  IF PolicyRejects(resolved, arguments)
             THEN PolicyFailed(validate_arguments(arguments, resolved.tool,
                                                  resolved.arg_constraints))
             ELSE CASE chld[i].state = "exited" ->
                        FormatResult(Result(chld[i].returncode, chld[i].stdout,
                                            chld[i].stderr))
                    [] chld[i].state = "killed" ->
                        FormatResult(TimeoutResult(ToolTimeout(resolved.tool)))
                    [] OTHER -> FormatResult(NotFoundResult(OwnCommand(i)))

\* C24: with several invocations in flight, in any interleaving, the registry
\* and the executor configuration stay as they were built, the command an
\* invocation runs is the one of its own request, and the reply to it is the
\* one its own request and its own child give.
ThmC24_InvocationsDoNotInterfere ==
    /\ loaded = load_configs(paths)
    /\ tool_map = (IF policy.present THEN apply_policy(loaded, policy) ELSE loaded)
    /\ policy \in ConcurrentPolicies
    /\ \A i \in InFlight :
        /\ pc[i] \in {"spawn", "waiting"} => cmd[i] = OwnCommand(i)
        /\ pc[i] = "done" => response[i] = OwnResponse(i)
        /\ pc[i] = "idle" => (cmd[i] = <<>> /\ response[i] = NoResponse)

\* One invocation has its reply while another, sent before it ended, still runs
WitC24_ReplyWhileOtherRuns ==
    /\ pc[1] = "done"
    /\ chld[1].state = "exited"
    /\ pc[2] = "waiting"
    /\ req[1].name # req[2].name

(***************************************************************************)
(* SpecSearch: ToolIndex.search and climax_search applied to generated     *)
(* indexes (specification, section 4.5).                                   *)
(***************************************************************************)
SearchTool(name, description) == ToolDef(name, description, <<>>, <<>>, 0)

\* A CLI with category vcs
GitLike ==
    [CLImaxConfig(<<"g", "i", "t">>, <<"g", "i", "t">>,
        <<SearchTool(<<"g", "s">>, <<"S", "h", "o", "w">>),
          SearchTool(<<"g", "c">>, <<"S", "a", "v", "e">>)>>)
     EXCEPT !.category = <<"v", "c", "s">>, !.tags = <<<<"s", "c", "m">>>>]

\* A CLI without category and tags
PlainLike ==
    CLImaxConfig(<<"e", "c", "h", "o">>, <<"e", "c", "h", "o">>,
        <<SearchTool(<<"e", "m">>, <<"S", "a", "y">>)>>)

\* A CLI with more tools than the default limit
BigLike ==
    [CLImaxConfig(<<"b", "i", "g">>, <<"b", "i", "g">>,
        [j \in 1..(DefaultLimit + 1) |->
            SearchTool(<<"t">> \o NatToStr(j), <<"g", "s">>)])
     EXCEPT !.category = <<"o", "p", "s">>]

SearchConfigLists ==
    {<<GitLike, PlainLike>>, <<PlainLike, GitLike>>, <<BigLike>>, <<GitLike, BigLike>>}

\* The arguments a caller sends: None, or a value
Queries ==
    {VNone, VStr(<<>>), VStr(<<"G", "S">>), VStr(<<"s", "a">>), VStr(<<".", "*">>)}

Categories ==
    {VNone, VStr(<<"v", "c", "s">>), VStr(<<"V", "C", "S">>), VStr(<<"v", "c">>), VStr(<<>>)}

Clis ==
    {VNone, VStr(<<"g", "i", "t">>), VStr(<<"G", "I", "T">>), VStr(<<"g", "i">>),
     VStr(<<"b", "i", "g">>)}

Limits == {VNone, VInt(0), VInt(1), VInt(50)}

InitSearch ==
    /\ \E configs \in SearchConfigLists :
        /\ paths = configs
        /\ loaded = load_configs(configs)
        /\ tool_map = load_configs(configs)
        /\ index = from_configs(configs)
    /\ policy = NoPolicy
    /\ classic = FALSE
    /\ pc = "idle"
    /\ req = NoRequest
    /\ cmd = <<>>
    /\ chld = "none"
    /\ spawns = 0
    /\ result = NoResult
    /\ response = NoResponse
    /\ trace = <<>>
    /\ decls = <<>>

\* index.search(query, category, cli, limit)
Search ==
    /\ pc = "idle"
    /\ \E query \in Queries, category \in Categories, cli \in Clis, limit \in Limits :
        /\ req' = [NoRequest EXCEPT !.via = "search",
                        !.arguments = [query |-> query, category |-> category,
                                       cli |-> cli, limit |-> limit]]
        /\ response' = [kind |-> "search", mode |-> "none",
                        results |-> search(index, query, category, cli, limit)]
    /\ pc' = "done"
    /\ UNCHANGED <<loaded, policy, tool_map, classic, cmd, chld, spawns, result,
                   trace, decls, index, paths>>

\* The climax_search meta-capability with the same arguments
ClimaxSearchCall ==
    /\ pc = "idle"
    /\ \E query \in Queries, category \in Categories, cli \in Clis, limit \in Limits :
        /\ req' = [NoRequest EXCEPT !.via = "climax_search",
                        !.arguments = [query |-> query, category |-> category,
                                       cli |-> cli, limit |-> limit]]
        /\ response' = climax_search(index, paths, query, category, cli, limit)
    /\ pc' = "done"
    /\ UNCHANGED <<loaded, policy, tool_map, classic, cmd, chld, spawns, result,
                   trace, decls, index, paths>>

\* The caller asks again
NextQuery ==
    /\ pc = "done"
    /\ pc' = "idle"
    /\ req' = NoRequest
    /\ response' = NoResponse
    /\ UNCHANGED <<loaded, policy, tool_map, classic, cmd, chld, spawns, result,
                   trace, decls, index, paths>>

NextSearch == Search \/ ClimaxSearchCall \/ NextQuery

SpecSearch == InitSearch /\ [][NextSearch]_vars

\* index.search was called and has returned
Searched == pc = "done" /\ req.via = "search"

\* The entry passes every filter the request supplies: the query is a run of
\* characters of the blob, category and cli are the entry's up to case
PassesFilters(entry) ==
    /\ req.arguments.query.k # "none" =>
        Contains(SearchBlob(entry), ToLower(req.arguments.query.s))
    /\ req.arguments.category.k # "none" =>
        /\ entry.category # "None"
        /\ ToLower(entry.category) = ToLower(req.arguments.category.s)
    /\ req.arguments.cli.k # "none" =>
        ToLower(entry.cli_name) = ToLower(req.arguments.cli.s)

\* The places of the index whose entries pass the filters
Passing == {m \in 1..Len(index) : PassesFilters(index[m])}

RequestedLimit ==
    IF req.arguments.limit.k = "none" THEN DefaultLimit ELSE req.arguments.limit.i

\* C25: search returns exactly the entries that pass every supplied filter, in
\* the order of the index, cut to limit: the k-th result is the k-th passing
\* entry, and there are min(limit, passing) results.
ThmC25_SearchFiltersInOrder ==
    Searched =>
        /\ Len(response.results) =
            (IF Cardinality(Passing) < RequestedLimit
             THEN Cardinality(Passing) ELSE RequestedLimit)
        /\ \A k \in 1..Len(response.results) :
            \E m \in Passing :
                /\ response.results[k] = index[m]
                /\ Cardinality({n \in Passing : n <= m}) = k

\* category "vc" was asked of an index with tools of category "vcs", and an
\* entry without category was in the index: nothing came back
WitC25_CategorySubstringFindsNothing ==
    /\ Searched
    /\ req.arguments.category = VStr(<<"v", "c">>)
    /\ req.arguments.query.k = "none"
    /\ req.arguments.cli.k = "none"
    /\ \E m \in 1..Len(index) : index[m].category = <<"v", "c", "s">>
    /\ \E m \in 1..Len(index) : index[m].category = "None"
    /\ response.results = <<>>

\* A search came back, through the index or through climax_search
Answered == pc = "done" /\ req.via \in {"search", "climax_search"}

NoFilter ==
    /\ req.arguments.query.k = "none"
    /\ req.arguments.category.k = "none"
    /\ req.arguments.cli.k = "none"

EmptyQueryAlone ==
    /\ req.arguments.query = VStr(<<>>)
    /\ req.arguments.category.k = "none"
    /\ req.arguments.cli.k = "none"

====
